---- MODULE Spec2Model ----
(***************************************************************************)
(* django-odata: the $select / $expand parsers (utils.py, native_fields.py) *)
(* and the queryset optimizer they feed (optimization.py, core.py,          *)
(* mixins.py).                                                              *)
(*                                                                          *)
(* A Python str is a sequence of tokens.  A token is either one character   *)
(* of the grammar ("(", ")", ",", ";", "=", ".", " ") or a run of           *)
(* characters that holds none of them (an identifier such as "author", an   *)
(* option key such as "$select", the lookup separator "__", the suffix      *)
(* "_id").  Every string operation of the code is modelled on tokens as it  *)
(* works on characters.                                                     *)
(* A Python dict is a sequence of <<key, value>> pairs with distinct keys,  *)
(* in insertion order.  None / a value is <<>> / <<value>>.                 *)
(***************************************************************************)
EXTENDS Integers, Sequences, FiniteSets, TLC

VARIABLES
    input,          \* parser run: the text handed to the parser
    op,             \* parser run: which parser ran ("none" before)
    parsed,         \* parser run: what it returned
    segments,       \* parser run: the top-level segments its loop handed on
    model,          \* request: queryset.model
    select_param,   \* request: query_params.get("$select")
    expand_param,   \* request: query_params.get("$expand")
    path,           \* request: "api" (the optimizer called directly) or "mixin" (ODataMixin)
    pc,             \* request: position in _apply_optimizations / get_queryset
    select_fields,  \* the list handed to optimize_queryset_for_select / _build_only_fields_list
    expand_fields,  \* the dict parse_expand_fields_v2 returned
    built,          \* what build_only_fields_list returned (None when not called)
    categorized,    \* what categorize_relations returned
    queryset,       \* the QuerySet: only() set, select_related, prefetch lookups
    expandable_fields, \* serializers: Meta.expandable_fields of every serializer class
    odata_expand,   \* serializers: context['odata_params'].get('$expand')
    stack,          \* serializers: the constructors running, innermost last
    query_params,   \* request: the OData options, a dict
    query_string,   \* request: the raw query string handed to the repository
    user,           \* request: request.user as ODataMixin reads it
    core_result,    \* what apply_odata_to_queryset / apply_odata_query_params gave
    mixin_result,   \* what ODataMixin.get_queryset gave
    graph,          \* code generator: the ModelGraph, its sets in iteration order
    cycles,         \* code generator: what detect_cycles returned
    edges_to_skip,  \* code generator: what resolve_circular_dependencies returned
    frames          \* concurrent requests: each call's arguments, position, locals and returns

vars == <<input, op, parsed, segments, model, select_param, expand_param, path, pc,
          select_fields, expand_fields, built, categorized, queryset,
          expandable_fields, odata_expand, stack,
          query_params, query_string, user, core_result, mixin_result,
          graph, cycles, edges_to_skip, frames>>

parseVars == <<input, op, parsed, segments>>
serVars == <<expandable_fields, odata_expand, stack>>
reqVars == <<query_params, query_string, user, core_result, mixin_result>>
planVars == <<model, select_param, expand_param, path, pc, select_fields,
              expand_fields, built, categorized, queryset>>
depVars == <<graph, cycles, edges_to_skip, frames>>

\* ModelGraph(): no nodes, no edges
NoGraph == [nodes |-> <<>>, edges |-> <<>>]

(***************************************************************************)
(* Bounds of the explored inputs.                                          *)
(***************************************************************************)
MaxFrags == 4
MaxSelect == 2
MaxOpts == 2
MaxExtra == 1
MaxSelFrags == 5

(***************************************************************************)
(* Python's None / optional values.                                        *)
(***************************************************************************)
None == <<>>
Some(v) == <<v>>

(***************************************************************************)
(* str methods.                                                            *)
(***************************************************************************)
RECURSIVE LStrip(_)
LStrip(s) == IF s # <<>> /\ Head(s) = " " THEN LStrip(Tail(s)) ELSE s

RECURSIVE RStrip(_)
RStrip(s) ==
    IF s # <<>> /\ s[Len(s)] = " " THEN RStrip(SubSeq(s, 1, Len(s) - 1)) ELSE s

\* str.strip()
Strip(s) == RStrip(LStrip(s))

\* t in s, for a single character t
Has(s, t) == \E i \in 1..Len(s) : s[i] = t

\* s.find(t) + 1 : the first position of t, 0 when s.find(t) = -1
Find(s, t) ==
    IF Has(s, t)
    THEN CHOOSE i \in 1..Len(s) : s[i] = t /\ \A j \in 1..(i - 1) : s[j] # t
    ELSE 0

\* s.rfind(t) + 1
RFind(s, t) ==
    IF Has(s, t)
    THEN CHOOSE i \in 1..Len(s) : s[i] = t /\ \A j \in (i + 1)..Len(s) : s[j] # t
    ELSE 0

\* sub in s, for a string sub
Contains(s, sub) ==
    \E i \in 1..(Len(s) - Len(sub) + 1) : SubSeq(s, i, i + Len(sub) - 1) = sub

\* s.startswith(sub)
StartsWith(s, sub) == Len(s) >= Len(sub) /\ SubSeq(s, 1, Len(sub)) = sub

\* key.startswith("$"): the first token is one that begins with '$'
DollarTokens == {"$select", "$expand", "$top", "$filter", "$x"}
StartsWithDollar(s) == s # <<>> /\ Head(s) \in DollarTokens

\* s.split(t): every piece, empty ones included
RECURSIVE Split(_, _)
Split(s, t) ==
    IF ~Has(s, t) THEN <<s>>
    ELSE <<SubSeq(s, 1, Find(s, t) - 1)>> \o Split(SubSeq(s, Find(s, t) + 1, Len(s)), t)

\* sep.join(parts)
RECURSIVE Join(_, _)
Join(parts, sep) ==
    IF parts = <<>> THEN <<>>
    ELSE IF Len(parts) = 1 THEN parts[1]
    ELSE parts[1] \o sep \o Join(Tail(parts), sep)

(***************************************************************************)
(* dict                                                                    *)
(***************************************************************************)
DictHas(d, k) == \E i \in 1..Len(d) : d[i][1] = k
DictGet(d, k) == d[CHOOSE i \in 1..Len(d) : d[i][1] = k][2]
\* d[k] = v : an existing key keeps its place, a new key goes last
DictSet(d, k, v) ==
    IF DictHas(d, k)
    THEN [i \in 1..Len(d) |-> IF d[i][1] = k THEN <<k, v>> ELSE d[i]]
    ELSE Append(d, <<k, v>>)
\* list(d.keys())
DictKeys(d) == [i \in 1..Len(d) |-> d[i][1]]
\* d.get(k): None when absent
DictGetOpt(d, k) == IF DictHas(d, k) THEN Some(DictGet(d, k)) ELSE None
\* the mapping a dict stands for, without its order
DictItems(d) == {d[i] : i \in 1..Len(d)}

SeqToSet(s) == {s[i] : i \in 1..Len(s)}

(***************************************************************************)
(* utils.py: the loop shared by parse_expand_fields_v2 (',') and           *)
(* _parse_query_options (';').                                             *)
(***************************************************************************)
\* the text the loop runs over: "Add comma at end to process last field"
WithTrailingDelimiter(s, delim) == s \o <<delim>>

\* a splitter that forgets the depth: every delimiter ends the segment
EndsSegment_AnyDepth(c, delim, paren_depth) == c = delim

\* the branch "elif char == delim and paren_depth == 0"
EndsSegment(c, delim, paren_depth) == c = delim /\ paren_depth = 0

\* paren_depth after reading c
NextDepth(c, paren_depth) ==
    IF c = "(" THEN paren_depth + 1
    ELSE IF c = ")" THEN paren_depth - 1
    ELSE paren_depth

\* One run of the loop from (current, paren_depth): the stripped non-blank
\* segments it hands on, in order.
RECURSIVE ScanTopLevel(_, _, _, _)
ScanTopLevel(s, delim, current, paren_depth) ==
    IF s = <<>> THEN <<>>
    ELSE LET c == Head(s) IN
         IF c = "(" \/ c = ")"
         THEN ScanTopLevel(Tail(s), delim, Append(current, c), NextDepth(c, paren_depth))
         ELSE IF EndsSegment(c, delim, paren_depth)
         THEN (IF Strip(current) # <<>> THEN <<Strip(current)>> ELSE <<>>)
              \o ScanTopLevel(Tail(s), delim, <<>>, paren_depth)
         ELSE ScanTopLevel(Tail(s), delim, Append(current, c), paren_depth)

SplitTopLevel(s, delim) == ScanTopLevel(WithTrailingDelimiter(s, delim), delim, <<>>, 0)

\* an option parser that splits at the last '=' (option.rsplit("=", 1))
_parse_single_query_option_LastEq(option) ==
    IF ~Has(option, "=") THEN <<<<>>, <<>>>>
    ELSE LET eq == RFind(option, "=")
             key == Strip(SubSeq(option, 1, eq - 1))
             value == Strip(SubSeq(option, eq + 1, Len(option)))
         IN IF ~StartsWithDollar(key) THEN <<<<>>, <<>>>> ELSE <<key, value>>

\* _parse_single_query_option: <<key, value>>, <<"", "">> for a dropped piece
_parse_single_query_option(option) ==
    IF ~Has(option, "=") THEN <<<<>>, <<>>>>
    ELSE LET eq == Find(option, "=")
             key == Strip(SubSeq(option, 1, eq - 1))
             value == Strip(SubSeq(option, eq + 1, Len(option)))
         IN IF ~StartsWithDollar(key) THEN <<<<>>, <<>>>> ELSE <<key, value>>

RECURSIVE OptionsFrom(_, _)
OptionsFrom(pieces, options) ==
    IF pieces = <<>> THEN options
    ELSE LET kv == _parse_single_query_option(Head(pieces)) IN
         OptionsFrom(Tail(pieces),
                     IF kv[1] # <<>> THEN DictSet(options, kv[1], kv[2]) ELSE options)

\* an option-body parser without "Add semicolon at end to process last
\* option": the piece after the last top-level ';' is never handed on
_parse_query_options_NoFlush(options_string) ==
    IF options_string = <<>> \/ Strip(options_string) = <<>> THEN <<>>
    ELSE OptionsFrom(ScanTopLevel(options_string, ";", <<>>, 0), <<>>)

\* _parse_query_options
_parse_query_options(options_string) ==
    IF options_string = <<>> \/ Strip(options_string) = <<>> THEN <<>>
    ELSE OptionsFrom(SplitTopLevel(options_string, ";"), <<>>)

\* _parse_single_expand_field_v2: <<field_name, options>>
_parse_single_expand_field_v2(field0) ==
    LET field == Strip(field0) IN
    IF ~Has(field, "(") THEN <<field, <<>>>>
    ELSE LET field_name == Strip(Split(field, "(")[1])
             start_paren == Find(field, "(")
             end_paren == RFind(field, ")")
         IN IF start_paren = 0 \/ end_paren = 0 THEN <<field, <<>>>>
            ELSE <<field_name,
                   _parse_query_options(SubSeq(field, start_paren + 1, end_paren - 1))>>

RECURSIVE ExpandFrom(_, _)
ExpandFrom(fields, result) ==
    IF fields = <<>> THEN result
    ELSE LET fo == _parse_single_expand_field_v2(Head(fields)) IN
         ExpandFrom(Tail(fields), DictSet(result, fo[1], fo[2]))

\* parse_expand_fields_v2
parse_expand_fields_v2(expand_string) ==
    IF expand_string = <<>> \/ Strip(expand_string) = <<>> THEN <<>>
    ELSE ExpandFrom(SplitTopLevel(expand_string, ","), <<>>)

(***************************************************************************)
(* native_fields.py: parse_select_fields, parse_expand_fields.             *)
(***************************************************************************)
\* [f.strip() for f in select_string.split(',') if f.strip()]
RECURSIVE StrippedNonBlank(_)
StrippedNonBlank(parts) ==
    IF parts = <<>> THEN <<>>
    ELSE (IF Strip(Head(parts)) # <<>> THEN <<Strip(Head(parts))>> ELSE <<>>)
         \o StrippedNonBlank(Tail(parts))

\* a list that takes x whether or not it is there
AppendNew_Always(l, x) == Append(l, x)

\* x appended to list l unless it is there ("if x not in l: l.append(x)")
AppendNew(l, x) == IF x \in SeqToSet(l) THEN l ELSE Append(l, x)

RECURSIVE SelectFrom(_, _, _)
SelectFrom(fields, top_level, nested) ==
    IF fields = <<>> THEN [top_level |-> top_level, nested |-> nested]
    ELSE LET field == Head(fields) IN
         IF Has(field, ".")
         THEN LET dot == Find(field, ".")
                  parent == Strip(SubSeq(field, 1, dot - 1))
                  child == Strip(SubSeq(field, dot + 1, Len(field)))
                  children == IF DictHas(nested, parent) THEN DictGet(nested, parent) ELSE <<>>
              IN SelectFrom(Tail(fields), AppendNew(top_level, parent),
                            DictSet(nested, parent, AppendNew(children, child)))
         ELSE SelectFrom(Tail(fields), AppendNew(top_level, field), nested)

\* parse_select_fields: [top_level |-> list, nested |-> dict of lists]
parse_select_fields(select_string) ==
    IF select_string = <<>> \/ Strip(select_string) = <<>>
    THEN [top_level |-> <<>>, nested |-> <<>>]
    ELSE SelectFrom(StrippedNonBlank(Split(select_string, ",")), <<>>, <<>>)

\* _parse_single_expand_field: <<field_name, nested $select or None>>
_parse_single_expand_field(field0) ==
    LET field == Strip(field0) IN
    IF ~Contains(field, <<"(", "$select", "=">>) THEN <<field, None>>
    ELSE LET field_name == Strip(Split(field, "(")[1])
             start_paren == Find(field, "(")
             end_paren == RFind(field, ")")
             inner_content == SubSeq(field, start_paren + 1, end_paren - 1)
         IN IF start_paren = 0 \/ end_paren = 0 THEN <<field, None>>
            ELSE IF StartsWith(inner_content, <<"$select", "=">>)
            THEN <<field_name, Some(SubSeq(inner_content, 3, Len(inner_content)))>>
            ELSE <<field, None>>

RECURSIVE NativeExpandFrom(_, _)
NativeExpandFrom(fields, result) ==
    IF fields = <<>> THEN result
    ELSE LET fs == _parse_single_expand_field(Head(fields)) IN
         NativeExpandFrom(Tail(fields), DictSet(result, fs[1], fs[2]))

\* parse_expand_fields (the loop is the one of parse_expand_fields_v2)
parse_expand_fields(expand_string) ==
    IF expand_string = <<>> \/ Strip(expand_string) = <<>> THEN <<>>
    ELSE NativeExpandFrom(SplitTopLevel(expand_string, ","), <<>>)

(***************************************************************************)
(* The models behind the querysets (Model._meta), as the code reads them.  *)
(* kind: "scalar", "fk" (ForeignKey), "o2o" (OneToOneField),               *)
(* "m2m" (ManyToManyField), "rev_fk" (ManyToOneRel, the reverse side of a  *)
(* ForeignKey), "rev_o2o" (OneToOneRel, the reverse side of a              *)
(* OneToOneField).                                                         *)
(***************************************************************************)
Fld(name, kind, related_model) ==
    [name |-> name, kind |-> kind, related_model |-> related_model]

\* model._meta.get_fields()
FieldsOf(m) ==
    CASE m = "BlogPost" ->
           {Fld("id", "scalar", "None"), Fld("title", "scalar", "None"),
            Fld("author", "fk", "Author"), Fld("categories", "m2m", "Category"),
            Fld("comments", "rev_fk", "Comment")}
      [] m = "User" ->
           {Fld("id", "scalar", "None"), Fld("name", "scalar", "None"),
            Fld("author", "rev_o2o", "Author")}
      [] m = "Author" ->
           {Fld("id", "scalar", "None"), Fld("bio", "scalar", "None"),
            Fld("user", "o2o", "User"), Fld("posts", "rev_fk", "BlogPost")}
      [] m = "Category" ->
           {Fld("slug", "scalar", "None"), Fld("name", "scalar", "None")}
      [] m = "Comment" ->
           {Fld("id", "scalar", "None"), Fld("name", "scalar", "None"),
            Fld("post", "fk", "BlogPost")}
      [] OTHER -> {}

\* model._meta.pk.name
PkName(m) == IF m = "Category" THEN <<"slug">> ELSE <<"id">>

\* hasattr(field, "attname"): every Field has one, a reverse relation has none
HasAttname(f) == f.kind \in {"scalar", "fk", "o2o", "m2m"}

\* field.attname: '<name>_id' for ForeignKey / OneToOneField, the name otherwise
Attname(f) == IF f.kind \in {"fk", "o2o"} THEN <<f.name, "_id">> ELSE <<f.name>>

\* the names model._meta.get_field answers to: the field's name, and the
\* attname of a forward field
AnswersTo(f, field_name) ==
    field_name = <<f.name>> \/ (HasAttname(f) /\ field_name = Attname(f))

\* "try: model._meta.get_field(field_name)" does not raise FieldDoesNotExist
FieldExists(m, field_name) == \E f \in FieldsOf(m) : AnswersTo(f, field_name)

\* model._meta.get_field(field_name)
GetField(m, field_name) == CHOOSE f \in FieldsOf(m) : AnswersTo(f, field_name)

\* field.many_to_one or field.one_to_one
ManyToOneOrOneToOne(f) == f.kind \in {"fk", "o2o", "rev_o2o"}

(***************************************************************************)
(* The QuerySet calls the optimizer makes.                                 *)
(* deferred_loading is Query.deferred_loading: <<field names, defer>>;     *)
(* <<{}, TRUE>> is "nothing deferred", <<F, FALSE>> is only(F).            *)
(* A prefetch lookup is [prefetch_to, queryset_only]: queryset_only is     *)
(* None for a lookup given by name, Some(F) for                            *)
(* Prefetch(name, queryset=Related.objects.only(F)).                       *)
(***************************************************************************)
\* Model.objects.all()
NewQuerySet ==
    [deferred_loading |-> <<{}, TRUE>>,
     select_related |-> {},
     prefetch_related_lookups |-> <<>>,
     where |-> <<>>,
     order_by |-> <<>>,
     low_mark |-> 0,
     high_mark |-> None,
     calls |-> <<>>]

\* a handler's outcome: the queryset it returned, or the exception it raised
Returned(qs) == [called |-> TRUE, raised |-> None, queryset |-> qs]
Raised(exc) == [called |-> TRUE, raised |-> Some(exc), queryset |-> None]
NotCalled == [called |-> FALSE, raised |-> None, queryset |-> None]

\* queryset.only(*fields): the names replace an earlier only() set
Only(qs, fields) ==
    [qs EXCEPT !.deferred_loading =
        IF qs.deferred_loading[2]
        THEN <<fields \ qs.deferred_loading[1], FALSE>>
        ELSE <<fields, FALSE>>,
             !.calls = Append(@, "only")]

\* queryset.select_related(*fields)
SelectRelated(qs, fields) ==
    [qs EXCEPT !.select_related = @ \cup fields,
               !.calls = Append(@, "select_related")]

\* queryset.prefetch_related(*lookups)
PrefetchRelated(qs, lookups) ==
    [qs EXCEPT !.prefetch_related_lookups = @ \o lookups,
               !.calls = Append(@, "prefetch_related")]

\* Query.is_sliced
IsSliced(qs) == qs.low_mark # 0 \/ qs.high_mark # None

\* queryset.filter(...): refused once a slice has been taken
Filter(qs, condition) ==
    IF IsSliced(qs) THEN Raised("TypeError")
    ELSE Returned([qs EXCEPT !.where = Append(@, condition),
                             !.calls = Append(@, "filter")])

\* queryset.order_by(*fields): replaces the ordering; refused once a slice
\* has been taken
OrderBy(qs, fields) ==
    IF IsSliced(qs) THEN Raised("TypeError")
    ELSE Returned([qs EXCEPT !.order_by = fields,
                             !.calls = Append(@, "order_by")])

Min(a, b) == IF a <= b THEN a ELSE b

\* queryset[low:] / queryset[:high] with low, high >= 0: Query.set_limits,
\* relative to the window the queryset already has
SliceFrom(qs, low) ==
    [qs EXCEPT !.low_mark = IF qs.high_mark # None
                            THEN Min(qs.high_mark[1], qs.low_mark + low)
                            ELSE qs.low_mark + low,
               !.calls = Append(@, "slice_from")]
SliceTo(qs, high) ==
    [qs EXCEPT !.high_mark = IF qs.high_mark # None
                             THEN Some(Min(qs.high_mark[1], qs.low_mark + high))
                             ELSE Some(qs.low_mark + high),
               !.calls = Append(@, "slice_to")]

\* a lookup given by name / a Prefetch object
ByName(name) == [prefetch_to |-> name, queryset_only |-> None]
PrefetchObj(name, only_fields) == [prefetch_to |-> name, queryset_only |-> Some(only_fields)]

\* f"{a}__{b}"
Lookup(a, b) == a \o <<"__">> \o b

\* Python truthiness of d.get(key) for a str value: present and not ''
Truthy(opt) == opt # None /\ opt[1] # <<>>

\* the fields of model m with a column of their own
ConcreteFields(m) == {f \in FieldsOf(m) : f.kind \in {"scalar", "fk", "o2o"}}

\* What only(F) loads of the queryset's own model: the primary key, the
\* fields F names, and the foreign key of every relation F reaches through
\* ('author__bio' loads author_id).
LoadedByOnly(m, names) ==
    {f \in ConcreteFields(m) :
        \/ <<f.name>> = PkName(m)
        \/ \E n \in names : AnswersTo(f, n)
        \/ \E n \in names : StartsWith(n, <<f.name, "__">>)}

\* the fields of its own model the queryset leaves deferred
DeferredFields(qs, m) ==
    IF qs.deferred_loading[2]
    THEN {f \in ConcreteFields(m) : \E n \in qs.deferred_loading[1] : AnswersTo(f, n)}
    ELSE ConcreteFields(m) \ LoadedByOnly(m, qs.deferred_loading[1])

(***************************************************************************)
(* optimization.py                                                         *)
(***************************************************************************)
\* get_existing_only_fields
get_existing_only_fields(qs) ==
    IF qs.deferred_loading[1] # {} THEN qs.deferred_loading[1] ELSE {}

\* a field list built without the primary key
PkFields_Forgotten(m) == {}

\* build_only_fields_list, "Always include primary key"
PkFields(m) == {PkName(m)}

\* build_only_fields_list, "Add only valid database fields from selected_fields"
SelectedDbFields(m, selected_fields) ==
    {field_name \in SeqToSet(selected_fields) : FieldExists(m, field_name)}

\* a field list that names the expanded relation (field.name) where the code
\* names its column (field.attname)
ExpandAttnames_FieldName(m, expand_keys) ==
    {k \in SeqToSet(expand_keys) : FieldExists(m, k) /\ HasAttname(GetField(m, k))}

\* build_only_fields_list, "Add foreign key fields for expanded relations"
ExpandAttnames(m, expand_keys) ==
    {Attname(GetField(m, field_name)) :
        field_name \in {k \in SeqToSet(expand_keys) :
                           FieldExists(m, k) /\ HasAttname(GetField(m, k))}}

\* build_only_fields_list: list(only_fields), a set
build_only_fields_list(m, selected_fields, expand_flds) ==
    PkFields(m) \cup SelectedDbFields(m, selected_fields)
                \cup ExpandAttnames(m, DictKeys(expand_flds))

\* optimize_queryset_for_select
optimize_queryset_for_select(qs, m, selected_fields, expand_flds) ==
    IF selected_fields = <<>> THEN qs
    ELSE LET only_fields == build_only_fields_list(m, selected_fields, expand_flds)
         IN IF only_fields # {} THEN Only(qs, only_fields) ELSE qs

\* is_forward_relation
is_forward_relation(m, field_name) ==
    FieldExists(m, field_name) /\ ManyToOneOrOneToOne(GetField(m, field_name))

\* a categorizer that drops the names the model does not know
RECURSIVE categorize_relations_DropUnknown(_, _)
categorize_relations_DropUnknown(m, field_names) ==
    IF field_names = <<>> THEN [select_related |-> <<>>, prefetch_related |-> <<>>]
    ELSE LET rest == categorize_relations_DropUnknown(m, Tail(field_names))
             field_name == Head(field_names)
         IN IF ~FieldExists(m, field_name) THEN rest
            ELSE IF is_forward_relation(m, field_name)
            THEN [rest EXCEPT !.select_related = <<field_name>> \o @]
            ELSE [rest EXCEPT !.prefetch_related = <<field_name>> \o @]

\* categorize_relations: [select_related |-> list, prefetch_related |-> list]
RECURSIVE categorize_relations(_, _)
categorize_relations(m, field_names) ==
    IF field_names = <<>> THEN [select_related |-> <<>>, prefetch_related |-> <<>>]
    ELSE LET rest == categorize_relations(m, Tail(field_names))
             field_name == Head(field_names)
         IN IF is_forward_relation(m, field_name)
            THEN [rest EXCEPT !.select_related = <<field_name>> \o @]
            ELSE [rest EXCEPT !.prefetch_related = <<field_name>> \o @]

\* the valid names of a nested $select, each prefixed: the loop
\* "for nested_field in nested_fields" of apply_related_field_selection
RECURSIVE NestedDbFields(_, _, _)
NestedDbFields(related_model, prefix, nested_fields) ==
    IF nested_fields = <<>> THEN <<>>
    ELSE (IF FieldExists(related_model, Head(nested_fields))
          THEN <<prefix \o Head(nested_fields)>> ELSE <<>>)
         \o NestedDbFields(related_model, prefix, Tail(nested_fields))

\* apply_related_field_selection, "if nested_select:" for one related field
RelatedSelectOnly(m, related_field, nested_select) ==
    IF ~FieldExists(m, related_field)
       \/ GetField(m, related_field).related_model = "None" THEN <<>>
    ELSE LET related_model == GetField(m, related_field).related_model
             prefix == related_field \o <<"__">>
         IN <<prefix \o PkName(related_model)>>
            \o NestedDbFields(related_model, prefix,
                              parse_select_fields(nested_select).top_level)

\* apply_related_field_selection, "if nested_expand:" for one related field:
\* the attname of every nested relation the related model has
RECURSIVE NestedFkFields(_, _, _)
NestedFkFields(related_model, prefix, nested_relations) ==
    IF nested_relations = <<>> THEN <<>>
    ELSE LET nested_rel == Head(nested_relations) IN
         (IF FieldExists(related_model, nested_rel)
             /\ HasAttname(GetField(related_model, nested_rel))
          THEN <<prefix \o Attname(GetField(related_model, nested_rel))>> ELSE <<>>)
         \o NestedFkFields(related_model, prefix, Tail(nested_relations))

RelatedExpandOnly(m, related_field, nested_expand) ==
    IF ~FieldExists(m, related_field)
       \/ GetField(m, related_field).related_model = "None" THEN <<>>
    ELSE NestedFkFields(GetField(m, related_field).related_model,
                        related_field \o <<"__">>,
                        DictKeys(parse_expand_fields(nested_expand)))

\* apply_related_field_selection: the only_fields list before the existing
\* only() fields are added
RECURSIVE RelatedOnlyFields(_, _, _)
RelatedOnlyFields(m, select_related_fields, expand_flds) ==
    IF select_related_fields = <<>> THEN <<>>
    ELSE LET related_field == Head(select_related_fields)
             options == DictGet(expand_flds, related_field)
             nested_select == DictGetOpt(options, <<"$select">>)
             nested_expand == DictGetOpt(options, <<"$expand">>)
         IN (IF DictHas(expand_flds, related_field)
             THEN (IF Truthy(nested_select)
                   THEN RelatedSelectOnly(m, related_field, nested_select[1]) ELSE <<>>)
                  \o (IF Truthy(nested_expand)
                      THEN RelatedExpandOnly(m, related_field, nested_expand[1]) ELSE <<>>)
             ELSE <<>>)
            \o RelatedOnlyFields(m, Tail(select_related_fields), expand_flds)

\* an apply_related_field_selection that forgets the existing only() fields
apply_related_field_selection_Replace(qs, m, select_related_fields, expand_flds) ==
    LET only_fields == RelatedOnlyFields(m, select_related_fields, expand_flds)
    IN IF only_fields # <<>> THEN Only(qs, SeqToSet(only_fields)) ELSE qs

\* apply_related_field_selection
apply_related_field_selection(qs, m, select_related_fields, expand_flds) ==
    LET only_fields == RelatedOnlyFields(m, select_related_fields, expand_flds)
    IN IF only_fields # <<>>
       THEN Only(qs, SeqToSet(only_fields) \cup get_existing_only_fields(qs))
       ELSE qs

\* apply_prefetch_field_selection: the Prefetch objects built
RECURSIVE PrefetchObjects(_, _, _)
PrefetchObjects(m, prefetch_related_fields, expand_flds) ==
    IF prefetch_related_fields = <<>> THEN <<>>
    ELSE LET prefetch_field == Head(prefetch_related_fields)
             nested_select == DictGetOpt(DictGet(expand_flds, prefetch_field), <<"$select">>)
             related_model == IF FieldExists(m, prefetch_field)
                              THEN GetField(m, prefetch_field).related_model
                              ELSE "None"
         IN (IF DictHas(expand_flds, prefetch_field) /\ Truthy(nested_select)
                /\ related_model # "None"
             THEN <<PrefetchObj(prefetch_field,
                                SeqToSet(<<PkName(related_model)>>
                                         \o NestedDbFields(related_model, <<>>,
                                              parse_select_fields(nested_select[1]).top_level)))>>
             ELSE <<>>)
            \o PrefetchObjects(m, Tail(prefetch_related_fields), expand_flds)

\* [f for f in l if f not in names]
RECURSIVE Without(_, _)
Without(l, names) ==
    IF l = <<>> THEN <<>>
    ELSE (IF Head(l) \in names THEN <<>> ELSE <<Head(l)>>) \o Without(Tail(l), names)

\* [ByName(f) for f in l]
ByNames(l) == [i \in 1..Len(l) |-> ByName(l[i])]

\* apply_prefetch_field_selection
apply_prefetch_field_selection(qs, m, prefetch_related_fields, expand_flds) ==
    LET prefetch_objects == PrefetchObjects(m, prefetch_related_fields, expand_flds)
        remaining_fields ==
            Without(prefetch_related_fields,
                    {prefetch_objects[i].prefetch_to : i \in 1..Len(prefetch_objects)})
        cleared == PrefetchRelated([qs EXCEPT !.prefetch_related_lookups = <<>>],
                                   prefetch_objects)
    IN IF prefetch_objects = <<>> THEN qs
       ELSE IF remaining_fields # <<>> THEN PrefetchRelated(cleared, ByNames(remaining_fields))
       ELSE cleared

\* apply_query_optimizations, "Handle deep expansion by extending
\* select_related_fields": the f"{field}__{rel}" entries
RECURSIVE DeepSelectRelated(_, _)
DeepSelectRelated(select_related_fields, expand_flds) ==
    IF select_related_fields = <<>> THEN {}
    ELSE LET field == Head(select_related_fields)
             nested_expand == DictGetOpt(DictGet(expand_flds, field), <<"$expand">>)
         IN (IF DictHas(expand_flds, field) /\ Truthy(nested_expand)
             THEN {Lookup(field, rel) :
                      rel \in SeqToSet(DictKeys(parse_expand_fields(nested_expand[1])))}
             ELSE {})
            \cup DeepSelectRelated(Tail(select_related_fields), expand_flds)

\* apply_query_optimizations
apply_query_optimizations(qs, m, select_related_fields, prefetch_related_fields, expand_flds) ==
    LET q1 == IF select_related_fields # <<>>
              THEN apply_related_field_selection(
                       SelectRelated(qs, SeqToSet(select_related_fields)
                                         \cup DeepSelectRelated(select_related_fields, expand_flds)),
                       m, select_related_fields, expand_flds)
              ELSE qs
    IN IF prefetch_related_fields # <<>>
       THEN apply_prefetch_field_selection(
                PrefetchRelated(q1, ByNames(prefetch_related_fields)),
                m, prefetch_related_fields, expand_flds)
       ELSE q1

\* optimize_queryset_for_expand
optimize_queryset_for_expand(qs, m, expand_flds) ==
    IF expand_flds = <<>> THEN qs
    ELSE LET c == categorize_relations(m, DictKeys(expand_flds))
         IN apply_query_optimizations(qs, m, c.select_related, c.prefetch_related, expand_flds)

(***************************************************************************)
(* mixins.py: ODataMixin, which carries its own copies of the optimizer.   *)
(***************************************************************************)
\* ODataMixin._build_only_fields_list: the expand keys come from
\* native_fields.parse_expand_fields
_build_only_fields_list(m, selected_fields, expand_prm) ==
    PkFields(m) \cup SelectedDbFields(m, selected_fields)
                \cup (IF Truthy(expand_prm)
                      THEN ExpandAttnames(m, DictKeys(parse_expand_fields(expand_prm[1])))
                      ELSE {})

\* ODataMixin._apply_field_selection_optimization
_apply_field_selection_optimization(qs, m, select_prm, expand_prm) ==
    IF ~Truthy(select_prm) THEN qs
    ELSE LET selected_fields == parse_select_fields(select_prm[1]).top_level
             only_fields == _build_only_fields_list(m, selected_fields, expand_prm)
         IN IF selected_fields = <<>> THEN qs
            ELSE IF only_fields # {} THEN Only(qs, only_fields) ELSE qs

\* ODataMixin._get_expand_fields
_get_expand_fields(expand_prm) ==
    IF ~Truthy(expand_prm) THEN <<>> ELSE parse_expand_fields_v2(expand_prm[1])

\* ODataMixin._categorize_expand_fields with _is_forward_relation: the code of
\* categorize_relations / is_forward_relation, over expand_fields.keys()
_categorize_expand_fields(m, expand_flds) == categorize_relations(m, DictKeys(expand_flds))

\* ODataMixin._apply_related_field_selection: the only_fields list; a nested
\* $expand adds nothing here
RECURSIVE MixinRelatedOnlyFields(_, _, _)
MixinRelatedOnlyFields(m, select_related_fields, expand_flds) ==
    IF select_related_fields = <<>> THEN <<>>
    ELSE LET related_field == Head(select_related_fields)
             nested_select == DictGetOpt(DictGet(expand_flds, related_field), <<"$select">>)
         IN (IF DictHas(expand_flds, related_field) /\ Truthy(nested_select)
             THEN RelatedSelectOnly(m, related_field, nested_select[1]) ELSE <<>>)
            \o MixinRelatedOnlyFields(m, Tail(select_related_fields), expand_flds)

\* ODataMixin._apply_related_field_selection
_apply_related_field_selection(qs, m, select_related_fields, expand_prm) ==
    IF ~Truthy(expand_prm) THEN qs
    ELSE LET only_fields == MixinRelatedOnlyFields(m, select_related_fields,
                                                   parse_expand_fields_v2(expand_prm[1]))
         IN IF only_fields # <<>>
            THEN Only(qs, SeqToSet(only_fields) \cup get_existing_only_fields(qs))
            ELSE qs

\* ODataMixin._apply_prefetch_field_selection: after its own parse of $expand
\* it is the code of apply_prefetch_field_selection
_apply_prefetch_field_selection(qs, m, prefetch_related_fields, expand_prm) ==
    IF ~Truthy(expand_prm) THEN qs
    ELSE apply_prefetch_field_selection(qs, m, prefetch_related_fields,
                                        parse_expand_fields_v2(expand_prm[1]))

\* ODataMixin._apply_query_optimizations
_apply_query_optimizations(qs, m, select_related_fields, prefetch_related_fields, expand_prm) ==
    LET q1 == IF select_related_fields # <<>>
              THEN _apply_related_field_selection(
                       SelectRelated(qs, SeqToSet(select_related_fields)),
                       m, select_related_fields, expand_prm)
              ELSE qs
    IN IF prefetch_related_fields # <<>>
       THEN _apply_prefetch_field_selection(
                PrefetchRelated(q1, ByNames(prefetch_related_fields)),
                m, prefetch_related_fields, expand_prm)
       ELSE q1

\* ODataMixin._optimize_queryset_for_expansions
_optimize_queryset_for_expansions(qs, m, expand_prm) ==
    LET expand_flds == _get_expand_fields(expand_prm)
        c == _categorize_expand_fields(m, expand_flds)
    IN IF expand_flds = <<>> THEN qs
       ELSE _apply_query_optimizations(qs, m, c.select_related, c.prefetch_related, expand_prm)

(***************************************************************************)
(* The explored inputs.                                                    *)
(***************************************************************************)
\* every sequence over S of length at most n
SeqsUpTo(S, n) == UNION {[1..k -> S] : k \in 0..n}

\* the elements of a sequence are pairwise different
Distinct(s) == \A i, j \in 1..Len(s) : i # j => s[i] # s[j]

\* parser runs: the texts are concatenations of at most MaxFrags fragments
Frags ==
    {<<"$select", "=">>, <<"$top", "=">>, <<"k", "=">>, <<"a">>,
     <<"(">>, <<")">>, <<";">>, <<",">>, <<" ">>}

RECURSIVE Concat(_)
Concat(parts) == IF parts = <<>> THEN <<>> ELSE Head(parts) \o Concat(Tail(parts))

Texts == {Concat(fs) : fs \in SeqsUpTo(Frags, MaxFrags)}

\* the expansion entry "author(<body>)"
WithOptions(body) == <<"author", "(">> \o body \o <<")">>

\* requests: the models, the $select names, the $expand entries
MainModels == {"BlogPost", "User"}
SelectNames == {<<"title">>, <<"nonexistent">>}
ExpandNames == {<<"author">>, <<"categories">>, <<"comments">>, <<"title">>, <<"nonexistent">>}
OptionPool ==
    {<<"$select", "=", "bio", ",", "name">>, <<"$expand", "=", "user">>,
     <<"$expand", "=", "user", "(", "$top", "=", "5", ")">>, <<"$top", "=", "5">>}

SelectLists == SeqsUpTo(SelectNames, MaxSelect)
SelectParams == {None} \cup {Some(Join(l, <<",">>)) : l \in SelectLists}

OptionLists == {l \in SeqsUpTo(OptionPool, MaxOpts) : Distinct(l)}

\* "name" or "name(opt;opt)"
Entry(name, opts) ==
    IF opts = <<>> THEN name ELSE name \o <<"(">> \o Join(opts, <<";">>) \o <<")">>

\* one entry with any option list, then at most MaxExtra bare names
ExpandParams ==
    {None, Some(<<>>)} \cup
    {Some(Join(<<Entry(n, o)>> \o extra, <<",">>)) :
        n \in ExpandNames, o \in OptionLists, extra \in SeqsUpTo(ExpandNames, MaxExtra)}

NoCategories == [select_related |-> <<>>, prefetch_related |-> <<>>]

(***************************************************************************)
(* Parser runs: one call of a parser of utils.py on a text.                *)
(***************************************************************************)
InitParse ==
    /\ input \in Texts
    /\ op = "none"
    /\ parsed = <<>>
    /\ segments = <<>>
    /\ model = "BlogPost"
    /\ select_param = None
    /\ expand_param = None
    /\ path = "none"
    /\ pc = "idle"
    /\ select_fields = <<>>
    /\ expand_fields = <<>>
    /\ built = None
    /\ categorized = NoCategories
    /\ queryset = NewQuerySet
    /\ expandable_fields = <<>>
    /\ odata_expand = <<>>
    /\ stack = <<>>
    /\ query_params = <<>>
    /\ query_string = None
    /\ user = None
    /\ core_result = NotCalled
    /\ mixin_result = NotCalled
    /\ graph = NoGraph
    /\ cycles = <<>>
    /\ edges_to_skip = {}
    /\ frames = <<>>

\* parse_expand_fields_v2(input)
ParseExpand ==
    /\ op = "none"
    /\ op' = "expand"
    /\ parsed' = parse_expand_fields_v2(input)
    /\ segments' = SplitTopLevel(input, ",")
    /\ UNCHANGED <<depVars, input, planVars, serVars, reqVars>>

\* parse_expand_fields_v2("author(" + input + ")")
ParseExpandWithOptions ==
    /\ op = "none"
    /\ op' = "expand_with_options"
    /\ parsed' = parse_expand_fields_v2(WithOptions(input))
    /\ segments' = SplitTopLevel(WithOptions(input), ",")
    /\ UNCHANGED <<depVars, input, planVars, serVars, reqVars>>

\* _parse_query_options(input)
ParseQueryOptions ==
    /\ op = "none"
    /\ op' = "options"
    /\ parsed' = _parse_query_options(input)
    /\ segments' = SplitTopLevel(input, ";")
    /\ UNCHANGED <<depVars, input, planVars, serVars, reqVars>>

\* _parse_single_expand_field_v2(input): <<field_name, options>>
ParseSingleExpand ==
    /\ op = "none"
    /\ op' = "single"
    /\ parsed' = _parse_single_expand_field_v2(input)
    /\ segments' = <<Strip(input)>>
    /\ UNCHANGED <<depVars, input, planVars, serVars, reqVars>>

NextParse ==
    ParseExpand \/ ParseExpandWithOptions \/ ParseQueryOptions \/ ParseSingleExpand

SpecParse == InitParse /\ [][NextParse]_vars

(***************************************************************************)
(* Selection runs: one call of parse_select_fields on a text.              *)
(***************************************************************************)
SelectFrags == {<<"a">>, <<"b">>, <<"a", ".">>, <<".">>, <<",">>, <<" ">>}

SelectTexts == {Concat(fs) : fs \in SeqsUpTo(SelectFrags, MaxSelFrags)}

InitSelect ==
    /\ input \in SelectTexts
    /\ op = "none"
    /\ parsed = <<>>
    /\ segments = <<>>
    /\ model = "BlogPost"
    /\ select_param = None
    /\ expand_param = None
    /\ path = "none"
    /\ pc = "idle"
    /\ select_fields = <<>>
    /\ expand_fields = <<>>
    /\ built = None
    /\ categorized = NoCategories
    /\ queryset = NewQuerySet
    /\ expandable_fields = <<>>
    /\ odata_expand = <<>>
    /\ stack = <<>>
    /\ query_params = <<>>
    /\ query_string = None
    /\ user = None
    /\ core_result = NotCalled
    /\ mixin_result = NotCalled
    /\ graph = NoGraph
    /\ cycles = <<>>
    /\ edges_to_skip = {}
    /\ frames = <<>>

\* parse_select_fields(input)
ParseSelect ==
    /\ op = "none"
    /\ op' = "select"
    /\ parsed' = parse_select_fields(input)
    /\ segments' = StrippedNonBlank(Split(input, ","))
    /\ UNCHANGED <<depVars, input, planVars, serVars, reqVars>>

NextSelect == ParseSelect

SpecSelect == InitSelect /\ [][NextSelect]_vars

(***************************************************************************)
(* Planner runs: optimize_queryset_for_select, then                        *)
(* optimize_queryset_for_expand, on a fresh queryset, with the $select     *)
(* list and the $expand map of a request.                                  *)
(***************************************************************************)
InitPlan ==
    /\ input = <<>>
    /\ op = "none"
    /\ parsed = <<>>
    /\ segments = <<>>
    /\ model \in MainModels
    /\ select_param = None
    /\ expand_param \in ExpandParams
    /\ path = "api"
    /\ pc = "start"
    /\ select_fields \in SelectLists
    /\ expand_fields = IF Truthy(expand_param)
                       THEN parse_expand_fields_v2(expand_param[1]) ELSE <<>>
    /\ built = None
    /\ categorized = NoCategories
    /\ queryset = NewQuerySet
    /\ expandable_fields = <<>>
    /\ odata_expand = <<>>
    /\ stack = <<>>
    /\ query_params = <<>>
    /\ query_string = None
    /\ user = None
    /\ core_result = NotCalled
    /\ mixin_result = NotCalled
    /\ graph = NoGraph
    /\ cycles = <<>>
    /\ edges_to_skip = {}
    /\ frames = <<>>

\* queryset = optimize_queryset_for_select(queryset, select_fields, expand_fields)
ApiSelect ==
    /\ path = "api" /\ pc = "start"
    /\ queryset' = optimize_queryset_for_select(queryset, model, select_fields, expand_fields)
    /\ built' = IF select_fields # <<>>
                THEN Some(build_only_fields_list(model, select_fields, expand_fields))
                ELSE None
    /\ pc' = "selected"
    /\ UNCHANGED <<depVars, reqVars, serVars, parseVars, model, select_param, expand_param, path, select_fields,
                   expand_fields, categorized>>

\* queryset = optimize_queryset_for_expand(queryset, expand_fields)
ApiExpand ==
    /\ path = "api" /\ pc = "selected"
    /\ queryset' = optimize_queryset_for_expand(queryset, model, expand_fields)
    /\ categorized' = categorize_relations(model, DictKeys(expand_fields))
    /\ pc' = "done"
    /\ UNCHANGED <<depVars, reqVars, serVars, parseVars, model, select_param, expand_param, path, select_fields,
                   expand_fields, built>>

NextPlan == ApiSelect \/ ApiExpand

SpecPlan == InitPlan /\ [][NextPlan]_vars

(***************************************************************************)
(* ODataMixin.get_queryset on a fresh queryset.                            *)
(***************************************************************************)
InitMixin ==
    /\ input = <<>>
    /\ op = "none"
    /\ parsed = <<>>
    /\ segments = <<>>
    /\ model \in MainModels
    /\ select_param \in SelectParams
    /\ expand_param \in ExpandParams
    /\ path = "mixin"
    /\ pc = "start"
    /\ select_fields = <<>>
    /\ expand_fields = <<>>
    /\ built = None
    /\ categorized = NoCategories
    /\ queryset = NewQuerySet
    /\ expandable_fields = <<>>
    /\ odata_expand = <<>>
    /\ stack = <<>>
    /\ query_params = <<>>
    /\ query_string = None
    /\ user = None
    /\ core_result = NotCalled
    /\ mixin_result = NotCalled
    /\ graph = NoGraph
    /\ cycles = <<>>
    /\ edges_to_skip = {}
    /\ frames = <<>>

\* queryset = self._apply_field_selection_optimization(queryset)
MixinSelect ==
    /\ path = "mixin" /\ pc = "start"
    /\ queryset' = _apply_field_selection_optimization(queryset, model, select_param, expand_param)
    /\ select_fields' = IF Truthy(select_param)
                        THEN parse_select_fields(select_param[1]).top_level ELSE <<>>
    /\ built' = IF select_fields' # <<>>
                THEN Some(_build_only_fields_list(model, select_fields', expand_param))
                ELSE None
    /\ pc' = "selected"
    /\ UNCHANGED <<depVars, reqVars, serVars, parseVars, model, select_param, expand_param, path, expand_fields,
                   categorized>>

\* queryset = self._optimize_queryset_for_expansions(queryset), then
\* return self.apply_odata_query(queryset): $filter, $orderby, $skip and $top
\* leave only(), select_related and the prefetch lookups as they are
MixinExpand ==
    /\ path = "mixin" /\ pc = "selected"
    /\ queryset' = _optimize_queryset_for_expansions(queryset, model, expand_param)
    /\ expand_fields' = _get_expand_fields(expand_param)
    /\ categorized' = _categorize_expand_fields(model, expand_fields')
    /\ pc' = "done"
    /\ UNCHANGED <<depVars, reqVars, serVars, parseVars, model, select_param, expand_param, path, select_fields, built>>

NextMixin == MixinSelect \/ MixinExpand

SpecMixin == InitMixin /\ [][NextMixin]_vars

(***************************************************************************)
(* The words of the properties, read without the code's loops.             *)
(***************************************************************************)
\* the kinds of field that are Forward relations: a single-valued reference
\* whose foreign key is stored on the model itself
ForwardKinds == {"fk", "o2o"}
IsForward(m, name) == FieldExists(m, name) /\ GetField(m, name).kind \in ForwardKinds

\* the parenthesis depth after the first i characters of s
RECURSIVE DepthAfter(_, _)
DepthAfter(s, i) ==
    IF i = 0 THEN 0
    ELSE DepthAfter(s, i - 1)
         + (IF s[i] = "(" THEN 1 ELSE IF s[i] = ")" THEN -1 ELSE 0)

\* balanced parentheses: the depth never goes below 0 and ends at 0
Balanced(s) ==
    /\ DepthAfter(s, Len(s)) = 0
    /\ \A i \in 0..Len(s) : DepthAfter(s, i) >= 0

\* the positions of t that hold the delimiter at depth 0
TopLevelCuts(t, delim) == {i \in 1..Len(t) : t[i] = delim /\ DepthAfter(t, i - 1) = 0}

\* the text between the cut at c and the cut before it
PieceEndingAt(t, delim, c) ==
    LET before == {d \in TopLevelCuts(t, delim) : d < c}
        prev == IF before = {} THEN 0 ELSE CHOOSE d \in before : \A e \in before : e <= d
    IN SubSeq(t, prev + 1, c - 1)

RECURSIVE PiecesFrom(_, _, _)
PiecesFrom(t, delim, i) ==
    IF i > Len(t) THEN <<>>
    ELSE (IF i \in TopLevelCuts(t, delim) /\ Strip(PieceEndingAt(t, delim, i)) # <<>>
          THEN <<Strip(PieceEndingAt(t, delim, i))>> ELSE <<>>)
         \o PiecesFrom(t, delim, i + 1)

\* the non-blank top-level pieces of s followed by one delimiter, trimmed
TopLevelPieces(s, delim) == PiecesFrom(s \o <<delim>>, delim, 1)

\* the text and the delimiter of the parser run
RunText == IF op = "expand_with_options" THEN WithOptions(input) ELSE input
RunDelim == IF op = "options" THEN ";" ELSE ","

\* a piece 'key=value' whose key starts with '$', its key and its value
PieceKey(p) == Strip(SubSeq(p, 1, Find(p, "=") - 1))
PieceValue(p) == Strip(SubSeq(p, Find(p, "=") + 1, Len(p)))
ValidPiece(p) == Has(p, "=") /\ StartsWithDollar(PieceKey(p))

\* the permutations of 1..n
Perms(n) == {p \in [1..n -> 1..n] : \A i, j \in 1..n : i # j => p[i] # p[j]}

\* an option map written back as 'key=value' pieces joined by ';', in the order p
Serialise(options, p) ==
    Join([i \in 1..Len(options) |-> options[p[i]][1] \o <<"=">> \o options[p[i]][2]],
         <<";">>)

\* the queryset is restricted by only(): the names it was given
HasOnly(qs) == ~qs.deferred_loading[2]
OnlyNames(qs) == qs.deferred_loading[1]

(***************************************************************************)
(* C1..C10                                                                 *)
(***************************************************************************)
\* C1: every field list the optimizer hands to only() holds the primary key
\* of the model it restricts: (a) build_only_fields_list's result holds the
\* main model's pk; (b) a relation in select_related whose options hold a
\* non-empty $select has '<relation>__<related pk>' in the only() set;
\* (c) every Prefetch queryset built for a nested $select is restricted to a
\* list that holds the related model's pk.
C1_PkInEveryOnlyList ==
    /\ built # None => PkName(model) \in built[1]
    /\ (path = "api" /\ pc = "done") =>
         /\ \A r \in SeqToSet(categorized.select_related) :
              Truthy(DictGetOpt(DictGet(expand_fields, r), <<"$select">>)) =>
                /\ HasOnly(queryset)
                /\ Lookup(r, PkName(GetField(model, r).related_model)) \in OnlyNames(queryset)
         /\ \A i \in 1..Len(queryset.prefetch_related_lookups) :
              LET l == queryset.prefetch_related_lookups[i] IN
              l.queryset_only # None =>
                PkName(GetField(model, l.prefetch_to).related_model) \in l.queryset_only[1]

\* C1's case: a $select list, and an expanded collection whose Prefetch
\* queryset is restricted, next to a forward relation
C1_Witness ==
    /\ path = "api" /\ pc = "done" /\ built # None
    /\ model = "BlogPost"
    /\ <<"author">> \in SeqToSet(categorized.select_related)
    /\ \E i \in 1..Len(queryset.prefetch_related_lookups) :
         /\ queryset.prefetch_related_lookups[i].prefetch_to = <<"categories">>
         /\ queryset.prefetch_related_lookups[i].queryset_only = Some({<<"slug">>, <<"name">>})

\* C2: with a non-empty $select list, build_only_fields_list's result holds
\* the attname ('author_id') of every expand key that is a forward
\* ForeignKey / OneToOne field of the model.
C2_ForwardAttnameInOnlyList ==
    (path = "api" /\ built # None) =>
        \A k \in SeqToSet(DictKeys(expand_fields)) :
            IsForward(model, k) => Attname(GetField(model, k)) \in built[1]

C2_Witness ==
    /\ path = "api" /\ pc = "done" /\ built # None
    /\ model = "BlogPost"
    /\ <<"author">> \in SeqToSet(DictKeys(expand_fields))
    /\ <<"author">> \in queryset.select_related
    /\ <<"author", "_id">> \in built[1]

\* C3: in ODataMixin.get_queryset with a non-empty $select, every forward
\* relation in the queryset's select_related has its foreign-key attname in
\* the only() set, whatever option list follows the name in $expand.
C3_MixinForwardAttnameInOnly ==
    (path = "mixin" /\ pc = "done" /\ select_fields # <<>>) =>
        \A r \in queryset.select_related :
            IsForward(model, r) =>
                HasOnly(queryset) /\ Attname(GetField(model, r)) \in OnlyNames(queryset)

\* C4: with an empty $select list, after optimize_queryset_for_select and
\* optimize_queryset_for_expand no field of the main model is deferred,
\* whatever $expand holds.
C4_NoSelectLoadsAllFields ==
    (path = "api" /\ pc = "done" /\ select_fields = <<>>) =>
        DeferredFields(queryset, model) = {}

\* C5: build_only_fields_list returns exactly {pk} + {selected names that
\* are fields of the model} + {attname of each expand key that is a Forward
\* relation}; nothing is added for any other expand key.
C5_OnlyListIsExactly ==
    (path = "api" /\ built # None) =>
        built[1] = {PkName(model)}
                   \cup {n \in SeqToSet(select_fields) : FieldExists(model, n)}
                   \cup {Attname(GetField(model, k)) :
                            k \in {e \in SeqToSet(DictKeys(expand_fields)) : IsForward(model, e)}}

\* C6: both splitters cut the text exactly at the delimiters read at depth
\* 0: the segments handed on are the non-blank pieces between those cuts,
\* trimmed, every other character in place, and the result is built from
\* those pieces alone.
C6_SplitAtDepthZero ==
    op \in {"expand", "expand_with_options", "options"} =>
        /\ segments = TopLevelPieces(RunText, RunDelim)
        /\ op = "options" => parsed = OptionsFrom(TopLevelPieces(input, ";"), <<>>)
        /\ op # "options" => parsed = ExpandFrom(TopLevelPieces(RunText, ","), <<>>)

\* C6's case: a delimiter at depth 0 that cut a segment off, and the same
\* delimiter deeper, kept inside a segment
C6_Witness ==
    /\ op \in {"expand", "expand_with_options", "options"}
    /\ TopLevelCuts(RunText, RunDelim) # {}
    /\ \E i \in 1..Len(segments) : Has(segments[i], RunDelim)

\* C7 as stated: _parse_query_options returns exactly one entry for each
\* top-level piece that holds '=' and whose trimmed key starts with '$', with
\* the trimmed text after the first '=' as its value.
C7_OneEntryPerValidPiece ==
    op = "options" =>
        LET ps == TopLevelPieces(input, ";")
            valid == {i \in 1..Len(ps) : ValidPiece(ps[i])}
        IN /\ Len(parsed) = Cardinality(valid)
           /\ \A i \in valid :
                /\ DictHas(parsed, PieceKey(ps[i]))
                /\ DictGet(parsed, PieceKey(ps[i])) = PieceValue(ps[i])

\* C7, amended: _parse_query_options returns one entry for each distinct key
\* of those pieces, in the order the keys first appear; its value is the
\* trimmed text after the first '=' of the last piece with that key; the
\* other pieces add nothing.
C7_OneEntryPerKeyLastWins ==
    op = "options" =>
        LET ps == TopLevelPieces(input, ";")
            valid == {i \in 1..Len(ps) : ValidPiece(ps[i])}
            last(k) == CHOOSE i \in valid :
                          PieceKey(ps[i]) = k /\ \A j \in valid : PieceKey(ps[j]) = k => j <= i
            first(k) == CHOOSE i \in valid :
                          PieceKey(ps[i]) = k /\ \A j \in valid : PieceKey(ps[j]) = k => i <= j
        IN /\ Distinct(DictKeys(parsed))
           /\ SeqToSet(DictKeys(parsed)) = {PieceKey(ps[i]) : i \in valid}
           /\ \A n \in 1..Len(parsed) : parsed[n][2] = PieceValue(ps[last(parsed[n][1])])
           /\ \A n1, n2 \in 1..Len(parsed) :
                n1 < n2 => first(parsed[n1][1]) < first(parsed[n2][1])

\* C7's case: two pieces with one key and different values
C7_Witness ==
    /\ op = "options"
    /\ LET ps == TopLevelPieces(input, ";") IN
       /\ \E i, j \in 1..Len(ps) :
            /\ i < j /\ ValidPiece(ps[i]) /\ ValidPiece(ps[j])
            /\ PieceKey(ps[i]) = PieceKey(ps[j])
            /\ PieceValue(ps[i]) # PieceValue(ps[j])
       /\ Len(parsed) = 1

\* C8: for an expansion string with balanced parentheses and every field of
\* parse_expand_fields_v2's result, the field's option map written back as
\* 'key=value' pieces joined by ';', in any order, parses with
\* _parse_query_options to the same map.
C8_OptionRoundTrip ==
    (op \in {"expand", "expand_with_options"} /\ Balanced(RunText)) =>
        \A n \in 1..Len(parsed) :
            LET options == parsed[n][2] IN
            \A p \in Perms(Len(options)) :
                LET again == _parse_query_options(Serialise(options, p)) IN
                /\ Len(again) = Len(options)
                /\ DictItems(again) = DictItems(options)

\* C8's case: a field with two options, one of them with a value
C8_Witness ==
    /\ op = "expand_with_options" /\ Balanced(RunText)
    /\ Len(parsed) = 1
    /\ Len(parsed[1][2]) = 2
    /\ \E n \in 1..2 : parsed[1][2][n][2] # <<>>

\* C9: categorize_relations places an expand name in select_related iff it
\* is a Forward relation of the model; each list keeps the order of the
\* names, and no name is in both.
C9_SelectRelatedIffForward ==
    (path = "api" /\ pc = "done") =>
        LET names == DictKeys(expand_fields) IN
        /\ \A k \in SeqToSet(names) :
             k \in SeqToSet(categorized.select_related) <=> IsForward(model, k)
        /\ SeqToSet(categorized.select_related) \cap SeqToSet(categorized.prefetch_related) = {}
        /\ categorized.select_related
             = Without(names, SeqToSet(names) \ SeqToSet(categorized.select_related))
        /\ categorized.prefetch_related
             = Without(names, SeqToSet(names) \ SeqToSet(categorized.prefetch_related))

MaxMark == 2

Digits == <<"0", "1", "2", "3", "4", "5", "6", "7", "8", "9">>
IsDigit(c) == \E d \in 1..10 : Digits[d] = c
DigitValue(c) == (CHOOSE d \in 1..10 : Digits[d] = c) - 1

RECURSIVE DecimalValue(_)
DecimalValue(ds) ==
    IF ds = <<>> THEN 0
    ELSE 10 * DecimalValue(SubSeq(ds, 1, Len(ds) - 1)) + DigitValue(ds[Len(ds)])

\* int(text) for a str, one character a token: blanks around the number and
\* one sign before it are accepted, then decimal digits only.  None stands
\* for ValueError.
int(text) ==
    LET t == Strip(text)
        signed == t # <<>> /\ t[1] \in {"-", "+"}
        ds == IF signed THEN Tail(t) ELSE t
    IN  IF ds # <<>> /\ \A i \in 1..Len(ds) : IsDigit(ds[i])
        THEN Some(IF signed /\ t[1] = "-" THEN 0 - DecimalValue(ds) ELSE DecimalValue(ds))
        ELSE None

\* s.endswith(sub)
EndsWith(s, sub) == Len(s) >= Len(sub) /\ SubSeq(s, Len(s) - Len(sub) + 1, Len(s)) = sub

\* odata_query.django.apply_odata_query: the expression becomes a filter(),
\* an expression the grammar refuses raises ODataException
ValidFilter(expression) == expression = <<"status", " ", "eq", " ", "'published'">>
apply_odata_query(qs, expression) ==
    IF ValidFilter(expression) THEN Filter(qs, expression) ELSE Raised("ODataException")

\* the option names parse_odata_query looks for, in its order
odata_query_options ==
    << <<"$filter">>, <<"$orderby">>, <<"$top">>, <<"$skip">>, <<"$select">>,
       <<"$expand">>, <<"$count">>, <<"$search">>, <<"$format">>, <<"omit">> >>

\* parse_odata_query over a dict / QueryDict
RECURSIVE OptionsOf(_, _)
OptionsOf(names, params) ==
    IF names = <<>> THEN <<>>
    ELSE (IF DictHas(params, Head(names))
          THEN <<<<Head(names), DictGet(params, Head(names))>>>> ELSE <<>>)
         \o OptionsOf(Tail(names), params)
parse_odata_query(params) == [raised |-> None, options |-> OptionsOf(odata_query_options, params)]

\* parse_odata_query over a str: `param in query_params` is the substring
\* test and query_params[param] indexes a str with a str, a TypeError
parse_odata_query_str(text) ==
    IF \E i \in 1..Len(odata_query_options) : Contains(text, odata_query_options[i])
    THEN [raised |-> Some("TypeError"), options |-> <<>>]
    ELSE [raised |-> None, options |-> <<>>]

\* _apply_filter
_apply_filter(qs, params) ==
    IF DictHas(params, <<"$filter">>)
    THEN apply_odata_query(qs, DictGet(params, <<"$filter">>))
    ELSE Returned(qs)

\* one field of $orderby: 'x desc' is '-x', 'x asc' is 'x'
OrderField(text) ==
    LET field == Strip(text)
    IN  IF EndsWith(field, <<" ", "desc">>)
        THEN <<"-">> \o Strip(SubSeq(field, 1, Len(field) - 2))
        ELSE IF EndsWith(field, <<" ", "asc">>)
        THEN Strip(SubSeq(field, 1, Len(field) - 2))
        ELSE field

\* _apply_orderby
_apply_orderby(qs, params) ==
    IF ~DictHas(params, <<"$orderby">>) THEN Returned(qs)
    ELSE LET pieces == Split(DictGet(params, <<"$orderby">>), ",")
         IN  OrderBy(qs, [i \in 1..Len(pieces) |-> OrderField(pieces[i])])

\* _apply_skip
_apply_skip(qs, params) ==
    IF ~DictHas(params, <<"$skip">>) THEN Returned(qs)
    ELSE LET skip == int(DictGet(params, <<"$skip">>))
         IN  IF skip # None /\ skip[1] > 0 THEN Returned(SliceFrom(qs, skip[1]))
             ELSE Returned(qs)

\* _apply_top
_apply_top(qs, params) ==
    IF ~DictHas(params, <<"$top">>) THEN Returned(qs)
    ELSE LET top == int(DictGet(params, <<"$top">>))
         IN  IF top # None /\ top[1] > 0 THEN Returned(SliceTo(qs, top[1]))
             ELSE Returned(qs)

\* the next statement of a try block: it runs on the queryset the one
\* before returned, unless that one raised
ThenOrderBy(outcome, params) ==
    IF outcome.raised # None THEN outcome ELSE _apply_orderby(outcome.queryset, params)
ThenSkip(outcome, params) ==
    IF outcome.raised # None THEN outcome ELSE _apply_skip(outcome.queryset, params)
ThenTop(outcome, params) ==
    IF outcome.raised # None THEN outcome ELSE _apply_top(outcome.queryset, params)

\* an apply_odata_query_params that limits before it skips
apply_odata_query_params_TopFirst(qs, params) ==
    ThenSkip(ThenTop(ThenOrderBy(_apply_filter(qs, params), params), params), params)

\* apply_odata_query_params: the four steps inside one try; an exception
\* ends the run and is raised again
apply_odata_query_params(qs, params) ==
    ThenTop(ThenSkip(ThenOrderBy(_apply_filter(qs, params), params), params), params)

\* core._apply_optimizations
_apply_optimizations(qs, m, params) ==
    LET expand_value == DictGetOpt(params, <<"$expand">>)
        expand_flds == IF Truthy(expand_value)
                       THEN parse_expand_fields_v2(expand_value[1]) ELSE <<>>
        pieces == Split(DictGet(params, <<"$select">>), ",")
        selected == IF DictHas(params, <<"$select">>)
                    THEN optimize_queryset_for_select(
                             qs, m, [i \in 1..Len(pieces) |-> Strip(pieces[i])], expand_flds)
                    ELSE qs
    IN  IF expand_flds # <<>>
        THEN optimize_queryset_for_expand(selected, m, expand_flds)
        ELSE selected

\* apply_odata_to_queryset(queryset, query_string, query_params)
apply_odata_to_queryset(qs, m, query_str, params) ==
    LET parsed_query == IF Truthy(query_str)
                        THEN parse_odata_query_str(query_str[1])
                        ELSE [raised |-> None, options |-> params]
        options == parsed_query.options
    IN  IF parsed_query.raised # None THEN Raised(parsed_query.raised[1])
        ELSE IF options = <<>> THEN Returned(qs)
        ELSE ThenTop(ThenSkip(ThenOrderBy(
                 _apply_filter(_apply_optimizations(qs, m, options), options),
                 options), options), options)

\* ODataRepository.query(query_string) over Model.objects.all()
RepositoryQuery(m, query_str) == apply_odata_to_queryset(NewQuerySet, m, query_str, <<>>)

\* hasattr(queryset.model, "status")
HasStatus(m) == m = "BlogPost"

\* ODataMixin.apply_odata_query without its except branch
ODataMixin_apply_odata_query_Reraise(qs, m, params, usr) ==
    LET applied == apply_odata_query_params(qs, params)
    IN  IF applied.raised # None THEN applied
        ELSE IF usr # None /\ usr[1] # "staff" /\ HasStatus(m)
        THEN Filter(applied.queryset, <<"status", "=", "published">>)
        ELSE applied

\* ODataMixin.apply_odata_query: the except branch returns the local
\* `queryset`, which is the argument while apply_odata_query_params has not
\* returned and its result afterwards; request.user is None, "staff" or
\* "reader"
ODataMixin_apply_odata_query(qs, m, params, usr) ==
    LET applied == apply_odata_query_params(qs, params)
    IN  IF applied.raised # None THEN Returned(qs)
        ELSE IF usr # None /\ usr[1] # "staff" /\ HasStatus(m)
        THEN LET published == Filter(applied.queryset, <<"status", "=", "published">>)
             IN  IF published.raised # None THEN Returned(applied.queryset) ELSE published
        ELSE applied

\* ODataMixin.get_queryset over the view's queryset
get_queryset(qs, m, request_params, usr) ==
    LET odata_params == parse_odata_query(request_params).options
        select_prm == DictGetOpt(odata_params, <<"$select">>)
        expand_prm == DictGetOpt(odata_params, <<"$expand">>)
    IN  ODataMixin_apply_odata_query(
            _optimize_queryset_for_expansions(
                _apply_field_selection_optimization(qs, m, select_prm, expand_prm),
                m, expand_prm),
            m, odata_params, usr)

\* an option of a request: absent, or the pair that holds it
Option(name, values) == {<<>>} \cup {<<<<name, v>>>> : v \in values}

\* list(reversed(s))
Reverse(s) == [i \in 1..Len(s) |-> s[Len(s) + 1 - i]]

\* the dicts that hold one choice of every option, in two orders of insertion
RequestDicts(filters, selects, expands, orderbys, skips, tops) ==
    LET InOrder ==
            {f \o s \o e \o o \o k \o t :
                f \in Option(<<"$filter">>, filters), s \in Option(<<"$select">>, selects),
                e \in Option(<<"$expand">>, expands), o \in Option(<<"$orderby">>, orderbys),
                k \in Option(<<"$skip">>, skips), t \in Option(<<"$top">>, tops)}
    IN  InOrder \cup {Reverse(d) : d \in InOrder}

FilterTexts ==
    { <<"status", " ", "eq", " ", "'published'">>, <<"invalid", " ", "syntax", " ", "here">> }
OrderByTexts ==
    { <<"title", " ", "desc">>, <<"title", " ", "asc", ",", " ", "id">> }
\* $skip / $top values: the numbers up to MaxMark, and texts int() takes or
\* refuses
MarkTexts ==
    {<<Digits[n + 1]>> : n \in 0..MaxMark}
        \cup { <<"-", "1">>, <<"x">>, <<" ", "1">>, <<"1", ".", "5">>, <<>> }

\* raw query strings, 'k1=v1&k2=v2'
QueryStrings ==
    { None,
      Some(<<>>),
      Some(<<"page", "=", "2">>),
      Some(<<"$top", "=", "1", "0">>),
      Some(<<"$skip", "=", "5">>),
      Some(<<"$select", "=", "title">>),
      Some(<<"$expand", "=", "author">>),
      Some(<<"$orderby", "=", "title", " ", "asc">>),
      Some(<<"$select", "=", "title", "&", "$expand", "=", "author", "&", "$top", "=", "5">>),
      Some(<<"$orderby", "=", "title", " ", "desc", "&", "$skip", "=", "2", "&", "page", "=", "2">>) }

(***************************************************************************)
(* apply_odata_to_queryset, apply_odata_query_params and                   *)
(* ODataRepository.query, each called once on BlogPost.objects.all().      *)
(***************************************************************************)
InitApply ==
    /\ input = <<>>
    /\ op = "none"
    /\ parsed = <<>>
    /\ segments = <<>>
    /\ model = "BlogPost"
    /\ select_param = None
    /\ expand_param = None
    /\ path = "none"
    /\ pc = "start"
    /\ select_fields = <<>>
    /\ expand_fields = <<>>
    /\ built = None
    /\ categorized = NoCategories
    /\ queryset = NewQuerySet
    /\ expandable_fields = <<>>
    /\ odata_expand = <<>>
    /\ stack = <<>>
    /\ \/ /\ query_string = None
          /\ query_params \in RequestDicts(FilterTexts, {<<"title">>}, {<<"author">>},
                                           OrderByTexts, MarkTexts, MarkTexts)
       \/ /\ query_string \in QueryStrings
          /\ query_params = <<>>
    /\ user = None
    /\ core_result = NotCalled
    /\ mixin_result = NotCalled
    /\ graph = NoGraph
    /\ cycles = <<>>
    /\ edges_to_skip = {}
    /\ frames = <<>>

\* apply_odata_to_queryset(queryset, query_string, query_params)
ApplyToQueryset ==
    /\ ~core_result.called
    /\ core_result' = apply_odata_to_queryset(queryset, model, query_string, query_params)
    /\ pc' = "apply_odata_to_queryset"
    /\ UNCHANGED <<depVars, parseVars, serVars, model, select_param, expand_param, path, select_fields,
                   expand_fields, built, categorized, queryset,
                   query_params, query_string, user, mixin_result>>

\* apply_odata_query_params(queryset, query_params)
ApplyQueryParams ==
    /\ ~core_result.called
    /\ query_string = None
    /\ core_result' = apply_odata_query_params(queryset, query_params)
    /\ pc' = "apply_odata_query_params"
    /\ UNCHANGED <<depVars, parseVars, serVars, model, select_param, expand_param, path, select_fields,
                   expand_fields, built, categorized, queryset,
                   query_params, query_string, user, mixin_result>>

\* ODataRepository(model).query(query_string)
QueryRepository ==
    /\ ~core_result.called
    /\ query_params = <<>>
    /\ core_result' = RepositoryQuery(model, query_string)
    /\ pc' = "ODataRepository.query"
    /\ UNCHANGED <<depVars, parseVars, serVars, model, select_param, expand_param, path, select_fields,
                   expand_fields, built, categorized, queryset,
                   query_params, query_string, user, mixin_result>>

NextApply == ApplyToQueryset \/ ApplyQueryParams \/ QueryRepository

SpecApply == InitApply /\ [][NextApply]_vars

(***************************************************************************)
(* The same request through apply_odata_to_queryset and through            *)
(* ODataMixin.get_queryset.                                                *)
(***************************************************************************)
EquivSelects == { <<"title">>, <<"title", ",", "author">> }
EquivExpands ==
    { <<"author">>, <<"comments">>,
      <<"author", "(", "$select", "=", "bio", ")">>,
      <<"author", "(", "$expand", "=", "user", ")">> }
Users == {None, Some("staff"), Some("reader")}

InitEquiv ==
    /\ input = <<>>
    /\ op = "none"
    /\ parsed = <<>>
    /\ segments = <<>>
    /\ model \in MainModels
    /\ select_param = None
    /\ expand_param = None
    /\ path = "none"
    /\ pc = "start"
    /\ select_fields = <<>>
    /\ expand_fields = <<>>
    /\ built = None
    /\ categorized = NoCategories
    /\ queryset = NewQuerySet
    /\ expandable_fields = <<>>
    /\ odata_expand = <<>>
    /\ stack = <<>>
    /\ query_string = None
    /\ query_params \in RequestDicts({<<"status", " ", "eq", " ", "'published'">>},
                                     EquivSelects, EquivExpands,
                                     {<<"title", " ", "desc">>},
                                     {<<Digits[MaxMark + 1]>>}, {<<Digits[MaxMark + 1]>>})
    /\ user \in Users
    /\ core_result = NotCalled
    /\ mixin_result = NotCalled
    /\ graph = NoGraph
    /\ cycles = <<>>
    /\ edges_to_skip = {}
    /\ frames = <<>>

\* viewset.get_queryset()
GetQueryset ==
    /\ ~mixin_result.called
    /\ mixin_result' = get_queryset(queryset, model, query_params, user)
    /\ UNCHANGED <<depVars, parseVars, serVars, planVars, query_params, query_string, user, core_result>>

NextEquiv == ApplyToQueryset \/ GetQueryset

SpecEquiv == InitEquiv /\ [][NextEquiv]_vars

(***************************************************************************)
(* native_fields.py: NativeFieldExpansionMixin.  A serializer constructor   *)
(* that expands a field calls the constructor of the child serializer,     *)
(* which may expand in turn: stack holds the constructors running, the     *)
(* innermost last.  A frame is the serializer under construction:          *)
(* class, context['_expansion_depth'], the expansions of the loop still to *)
(* do, and fields, the expanded entries of self.fields (name, child).      *)
(***************************************************************************)
MAX_EXPANSION_DEPTH == 3

\* the greatest _expansion_depth a root serializer is given
MaxStartDepth == 4
\* the constructors that may be running at once
MaxStack == 6

SerializerClasses == {"PostSerializer", "AuthorSerializer"}
ExpandableNames == <<<<"author">>, <<"posts">>>>

\* Meta.expandable_fields of one class: each name absent or a class
ExpandableConfigs ==
    LET Choice == [1..Len(ExpandableNames) -> SerializerClasses \cup {"absent"}]
        Entries(c, i) == IF c[i] = "absent" THEN <<>> ELSE <<<<ExpandableNames[i], c[i]>>>>
    IN  {Entries(c, 1) \o Entries(c, 2) : c \in Choice}

\* the $expand values a request carries
SerializerExpands ==
    { None,
      Some(<<>>),
      Some(<<"author">>),
      Some(<<"posts">>),
      Some(<<"author", ",", "posts">>),
      Some(<<"author", "(", "$select", "=", "id", ")">>),
      Some(<<"tags", ",", "author">>) }

\* serializer_class(context=nested_context): __init__ has not yet run
\* _apply_field_expansion
NewSerializer(cls, depth, name) ==
    [cls |-> cls, depth |-> depth, phase |-> "init", todo |-> <<>>,
     fields |-> <<>>, name |-> name]

\* if depth >= self.MAX_EXPANSION_DEPTH: return
MaxDepthReached_Beyond(depth) == depth > MAX_EXPANSION_DEPTH
MaxDepthReached(depth) == depth >= MAX_EXPANSION_DEPTH

\* nested_context['_expansion_depth'] = depth + 1
NestedDepth(depth) == depth + 1

Top == stack[Len(stack)]
SetTop(frame) == [stack EXCEPT ![Len(stack)] = frame]

\* the serializer a finished constructor returns
Built(frame) == [cls |-> frame.cls, depth |-> frame.depth, fields |-> frame.fields]

InitSerializer ==
    /\ input = <<>>
    /\ op = "none"
    /\ parsed = <<>>
    /\ segments = <<>>
    /\ model = "BlogPost"
    /\ select_param = None
    /\ expand_param = None
    /\ path = "none"
    /\ pc = "idle"
    /\ select_fields = <<>>
    /\ expand_fields = <<>>
    /\ built = None
    /\ categorized = NoCategories
    /\ queryset = NewQuerySet
    /\ expandable_fields \in [SerializerClasses -> ExpandableConfigs]
    /\ odata_expand \in SerializerExpands
    /\ \E cls \in SerializerClasses, depth \in 0..MaxStartDepth :
           stack = <<NewSerializer(cls, depth, <<>>)>>
    /\ query_params = <<>>
    /\ query_string = None
    /\ user = None
    /\ core_result = NotCalled
    /\ mixin_result = NotCalled
    /\ graph = NoGraph
    /\ cycles = <<>>
    /\ edges_to_skip = {}
    /\ frames = <<>>

\* _apply_field_expansion up to its loop: the five early returns, then
\* parse_expand_fields
BeginExpansion ==
    /\ stack # <<>>
    /\ Top.phase = "init"
    /\ IF \/ ~Truthy(odata_expand)
          \/ MaxDepthReached(Top.depth)
          \/ expandable_fields[Top.cls] = <<>>
       THEN stack' = SetTop([Top EXCEPT !.phase = "done"])
       ELSE stack' = SetTop([Top EXCEPT !.phase = "loop",
                                        !.todo = DictKeys(parse_expand_fields(odata_expand[1]))])
    /\ UNCHANGED <<depVars, parseVars, planVars, reqVars, expandable_fields, odata_expand>>

\* one turn of the loop: a name that is not expandable is skipped, any
\* other calls the constructor of its serializer class
ExpandField ==
    /\ stack # <<>>
    /\ Top.phase = "loop"
    /\ Top.todo # <<>>
    /\ LET field_name == Head(Top.todo)
           expandable == expandable_fields[Top.cls]
       IN  IF ~DictHas(expandable, field_name)
           THEN stack' = SetTop([Top EXCEPT !.todo = Tail(Top.todo)])
           ELSE /\ Len(stack) < MaxStack
                /\ stack' = Append(stack,
                                   NewSerializer(DictGet(expandable, field_name),
                                                 NestedDepth(Top.depth), field_name))
    /\ UNCHANGED <<depVars, parseVars, planVars, reqVars, expandable_fields, odata_expand>>

\* the constructor returns: to the caller's self.fields[field_name] = ...,
\* or, for the root serializer, to the program
ReturnSerializer ==
    /\ stack # <<>>
    /\ \/ Top.phase = "done"
       \/ Top.phase = "loop" /\ Top.todo = <<>>
    /\ IF Len(stack) = 1
       THEN stack' = SetTop([Top EXCEPT !.phase = "built"])
       ELSE LET caller == stack[Len(stack) - 1]
            IN  stack' = [SubSeq(stack, 1, Len(stack) - 1) EXCEPT
                             ![Len(stack) - 1] =
                                 [caller EXCEPT
                                     !.fields = DictSet(caller.fields, Top.name, Built(Top)),
                                     !.todo = Tail(caller.todo)]]
    /\ UNCHANGED <<depVars, parseVars, planVars, reqVars, expandable_fields, odata_expand>>

NextSerializer == BeginExpansion \/ ExpandField \/ ReturnSerializer

SpecSerializer == InitSerializer /\ [][NextSerializer]_vars

(***************************************************************************)
(* C11..C20                                                                *)
(***************************************************************************)
\* C12: a relation in select_related whose options hold no nested $select
\* keeps all its fields: apply_related_field_selection puts no
\* '<relation>__...' name in the only() set for it, whatever else its
\* options hold.
C12_NoNestedSelectNoRelatedOnly ==
    (path = "api" /\ pc = "done") =>
        \A r \in SeqToSet(categorized.select_related) :
            ~Truthy(DictGetOpt(DictGet(expand_fields, r), <<"$select">>)) =>
                \A n \in OnlyNames(queryset) : ~StartsWith(n, r \o <<"__">>)

\* C13: for a relation R in select_related whose options hold a nested
\* $expand, the select_related paths below R are exactly 'R__C', one for each
\* top-level child C of the nested value, C being the child's bare name (the
\* text before any '(').
C13_DeepPathPerChild ==
    (path = "api" /\ pc = "done") =>
        \A r \in SeqToSet(categorized.select_related) :
            LET nested_expand == DictGetOpt(DictGet(expand_fields, r), <<"$expand">>) IN
            Truthy(nested_expand) =>
                {p \in queryset.select_related : StartsWith(p, r \o <<"__">>)}
                  = {Lookup(r, c) : c \in SeqToSet(DictKeys(parse_expand_fields_v2(nested_expand[1])))}

\* the elements of s, each once, in the order of their first appearance
RECURSIVE FirstAppearances(_)
FirstAppearances(s) ==
    IF s = <<>> THEN <<>>
    ELSE LET init == SubSeq(s, 1, Len(s) - 1) IN
         IF s[Len(s)] \in SeqToSet(init) THEN FirstAppearances(init)
         ELSE Append(FirstAppearances(init), s[Len(s)])

\* the top-level name of a $select piece, and what follows its first '.'
TopName(piece) == IF Has(piece, ".") THEN Strip(SubSeq(piece, 1, Find(piece, ".") - 1)) ELSE piece
Remainder(piece) == Strip(SubSeq(piece, Find(piece, ".") + 1, Len(piece)))

\* the remainders of the dotted pieces under one parent, in order
RECURSIVE RemaindersOf(_, _)
RemaindersOf(pieces, parent) ==
    IF pieces = <<>> THEN <<>>
    ELSE (IF Has(Head(pieces), ".") /\ TopName(Head(pieces)) = parent
          THEN <<Remainder(Head(pieces))>> ELSE <<>>)
         \o RemaindersOf(Tail(pieces), parent)

\* C18: parse_select_fields lists in top_level each distinct top-level name
\* once, in order of first appearance (a dotted piece gives the part before
\* its first '.'); nested[parent] lists each distinct remainder once, in
\* order of first appearance; every key of nested is in top_level; a blank
\* input gives an empty top_level and an empty nested.
C18_SelectFirstAppearances ==
    op = "select" =>
        LET pieces == segments
            dotted == {i \in 1..Len(pieces) : Has(pieces[i], ".")}
        IN /\ parsed.top_level = FirstAppearances([i \in 1..Len(pieces) |-> TopName(pieces[i])])
           /\ Distinct(DictKeys(parsed.nested))
           /\ SeqToSet(DictKeys(parsed.nested)) = {TopName(pieces[i]) : i \in dotted}
           /\ \A n \in 1..Len(parsed.nested) :
                parsed.nested[n][2] = FirstAppearances(RemaindersOf(pieces, parsed.nested[n][1]))
           /\ SeqToSet(DictKeys(parsed.nested)) \subseteq SeqToSet(parsed.top_level)
           /\ Strip(input) = <<>> => (parsed.top_level = <<>> /\ parsed.nested = <<>>)

\* C18's case: a parent named twice with the same child
C18_Witness ==
    /\ op = "select"
    /\ Len(segments) = 2
    /\ \A i \in 1..2 : Has(segments[i], ".")
    /\ parsed.top_level = <<<<"a">>>>
    /\ parsed.nested = <<<<<<"a">>, <<<<"b">>>>>>>>

\* an opening parenthesis of s that no later closing parenthesis matches
UnmatchedOpen(s) ==
    \E i \in 1..Len(s) :
        s[i] = "(" /\ \A j \in i..Len(s) : DepthAfter(s, j) >= DepthAfter(s, i)

\* C19: for a segment with an opening parenthesis that has no matching
\* closing one, _parse_single_expand_field_v2 returns the whole trimmed
\* segment as the field name, with an empty option map.
C19_UnmatchedOpenIsLiteral ==
    (op = "single" /\ UnmatchedOpen(Strip(input))) => parsed = <<Strip(input), <<>>>>

\* the text after the last top-level delimiter of the run's text
LastPiece ==
    LET cuts == TopLevelCuts(RunText, RunDelim)
        last == IF cuts = {} THEN 0 ELSE CHOOSE c \in cuts : \A d \in cuts : d <= c
    IN SubSeq(RunText, last + 1, Len(RunText))

\* C20: the text after the last top-level delimiter, when not blank, is the
\* last segment handed on, balanced parentheses or not; so
\* parse_expand_fields_v2 never gives an empty result for such an input.
C20_LastSegmentEmitted ==
    op \in {"expand", "expand_with_options", "options"} =>
        /\ Strip(LastPiece) # <<>> =>
             (segments # <<>> /\ segments[Len(segments)] = Strip(LastPiece))
        /\ (op # "options" /\ Strip(LastPiece) # <<>>) => parsed # <<>>

\* C11: a serializer whose _expansion_depth is MAX_EXPANSION_DEPTH or more
\* gets no expanded field; below it, every name of $expand found in
\* expandable_fields gets a child whose depth is one more; so no chain of
\* expanded serializers under a root of depth 0 is longer than
\* MAX_EXPANSION_DEPTH, whatever cycle expandable_fields holds, and no more
\* than MAX_EXPANSION_DEPTH + 1 constructors ever run at once: the
\* construction is a finite tree.
RECURSIVE ChainLength(_)
ChainLength(ser) ==
    IF ser.fields = <<>> THEN 0
    ELSE 1 + CHOOSE m \in 0..MaxStack :
                 /\ \E i \in 1..Len(ser.fields) : ChainLength(ser.fields[i][2]) = m
                 /\ \A i \in 1..Len(ser.fields) : ChainLength(ser.fields[i][2]) <= m

RECURSIVE DepthsRespected(_)
DepthsRespected(ser) ==
    /\ ser.depth >= MAX_EXPANSION_DEPTH => ser.fields = <<>>
    /\ \A i \in 1..Len(ser.fields) :
           /\ ser.fields[i][2].depth = ser.depth + 1
           /\ ser.fields[i][2].cls = DictGet(expandable_fields[ser.cls], ser.fields[i][1])
           /\ DepthsRespected(ser.fields[i][2])

\* the names a serializer of this class expands
ExpandedNames(cls) ==
    IF ~Truthy(odata_expand) THEN {}
    ELSE SeqToSet(DictKeys(parse_expand_fields(odata_expand[1])))
             \cap SeqToSet(DictKeys(expandable_fields[cls]))

RECURSIVE AllExpanded(_)
AllExpanded(ser) ==
    /\ ser.depth < MAX_EXPANSION_DEPTH =>
           SeqToSet(DictKeys(ser.fields)) = ExpandedNames(ser.cls)
    /\ \A i \in 1..Len(ser.fields) : AllExpanded(ser.fields[i][2])

C11_ExpansionDepthBounded ==
    /\ \A i \in 1..Len(stack) :
           /\ DepthsRespected(Built(stack[i]))
           /\ i > 1 => stack[i].depth = stack[i - 1].depth + 1
           /\ stack[i].depth <= MAX_EXPANSION_DEPTH \/ i = 1
    /\ (stack # <<>> /\ stack[1].depth <= MAX_EXPANSION_DEPTH) =>
           /\ Len(stack) - 1 <= MAX_EXPANSION_DEPTH - stack[1].depth
           /\ ChainLength(Built(stack[1])) <= MAX_EXPANSION_DEPTH - stack[1].depth
    /\ (stack # <<>> /\ stack[1].phase = "built") => AllExpanded(Built(stack[1]))

\* a root of depth 0 over a class that refers back to itself, built with a
\* chain of MAX_EXPANSION_DEPTH expanded serializers and none below
C11_Witness ==
    /\ stack # <<>>
    /\ stack[1].phase = "built"
    /\ stack[1].depth = 0
    /\ DictGetOpt(expandable_fields[stack[1].cls], <<"author">>) = Some(stack[1].cls)
    /\ ChainLength(Built(stack[1])) = MAX_EXPANSION_DEPTH

\* the N of a $skip / $top value that parses as a non-negative integer
MarkOf(params, name) ==
    IF DictHas(params, name) /\ int(DictGet(params, name)) # None
                             /\ int(DictGet(params, name))[1] >= 0
    THEN int(DictGet(params, name))
    ELSE None

\* the functions of utils.py / core.py were called with a dict of options
AppliedDict ==
    /\ core_result.called
    /\ query_string = None
    /\ pc \in {"apply_odata_to_queryset", "apply_odata_query_params"}

\* C14: a $skip / $top value that parses as a non-negative integer N gives
\* offset N / limit N; any other value leaves the window as it was, nothing
\* is raised for it and $orderby is still applied.
C14_MarksFollowParsedValue ==
    AppliedDict =>
        LET skip == MarkOf(query_params, <<"$skip">>)
            top == MarkOf(query_params, <<"$top">>)
            offset == IF skip # None THEN skip[1] ELSE 0
        IN  /\ core_result.raised # None =>
                   (DictHas(query_params, <<"$filter">>)
                        /\ ~ValidFilter(DictGet(query_params, <<"$filter">>)))
            /\ core_result.raised = None =>
                   /\ core_result.queryset.low_mark = offset
                   /\ core_result.queryset.high_mark =
                          (IF top # None THEN Some(offset + top[1]) ELSE None)
                   /\ DictHas(query_params, <<"$orderby">>) =>
                          core_result.queryset.order_by # <<>>

\* the place of a QuerySet call in the fixed order: optimizations, $filter,
\* $orderby, $skip, $top
CallRank(call) ==
    CASE call \in {"only", "select_related", "prefetch_related"} -> 0
      [] call = "filter" -> 1
      [] call = "order_by" -> 2
      [] call = "slice_from" -> 3
      [] call = "slice_to" -> 4

InFixedOrder(calls) ==
    \A i, j \in 1..Len(calls) :
        i < j => /\ CallRank(calls[i]) <= CallRank(calls[j])
                 /\ CallRank(calls[i]) > 0 => CallRank(calls[i]) < CallRank(calls[j])

\* C15: whatever the order of the options in the dict,
\* apply_odata_to_queryset and apply_odata_query_params call the queryset in
\* the order optimizations, filter, order_by, [skip:], [:top]; so filter and
\* order_by never meet a sliced queryset (no TypeError), and positive
\* $skip = s, $top = t give low_mark = s, high_mark = s + t.
C15_FixedApplicationOrder ==
    AppliedDict =>
        /\ core_result.raised # Some("TypeError")
        /\ core_result.raised = None =>
               LET qs == core_result.queryset
                   skip == MarkOf(query_params, <<"$skip">>)
                   top == MarkOf(query_params, <<"$top">>)
               IN  /\ InFixedOrder(qs.calls)
                   /\ DictHas(query_params, <<"$filter">>) <=> Has(qs.calls, "filter")
                   /\ DictHas(query_params, <<"$orderby">>) <=> Has(qs.calls, "order_by")
                   /\ (skip # None /\ top # None /\ skip[1] > 0 /\ top[1] > 0) =>
                          /\ qs.low_mark = skip[1]
                          /\ qs.high_mark = Some(skip[1] + top[1])

\* $top is the first option of the dict and $filter the last, and the
\* queryset was optimized, filtered, ordered and cut to rows [2, 4)
C15_Witness ==
    /\ AppliedDict
    /\ pc = "apply_odata_to_queryset"
    /\ core_result.raised = None
    /\ query_params # <<>>
    /\ query_params[1][1] = <<"$top">>
    /\ query_params[Len(query_params)][1] = <<"$filter">>
    /\ core_result.queryset.calls =
           <<"only", "select_related", "filter", "order_by", "slice_from", "slice_to">>
    /\ core_result.queryset.low_mark = 2
    /\ core_result.queryset.high_mark = Some(4)

\* the dict a raw query string 'k1=v1&k2=v2' spells
RECURSIVE PairsOf(_, _)
PairsOf(pieces, options) ==
    IF pieces = <<>> THEN options
    ELSE LET piece == Head(pieces)
             eq == Find(piece, "=")
         IN  PairsOf(Tail(pieces),
                     IF eq = 0 THEN options
                     ELSE DictSet(options, SubSeq(piece, 1, eq - 1),
                                  SubSeq(piece, eq + 1, Len(piece))))
QueryStringOptions(text) == PairsOf(Split(text, "&"), <<>>)

\* C16: apply_odata_to_queryset and ODataRepository.query, given a raw
\* query string, return what the options spelled in it give ($select as
\* only(), $expand of a forward relation as select_related, $orderby, $top,
\* $skip), and the queryset itself when the string is empty or None.
C16_QueryStringApplied ==
    (/\ core_result.called
     /\ pc \in {"apply_odata_to_queryset", "ODataRepository.query"}
     /\ query_params = <<>>) =>
        IF ~Truthy(query_string)
        THEN core_result = Returned(queryset)
        ELSE /\ core_result.raised = None
             /\ core_result = apply_odata_to_queryset(
                    queryset, model, None, QueryStringOptions(query_string[1]))

\* C17: for one model and one dict of options, apply_odata_to_queryset and
\* ODataMixin.get_queryset return querysets with the same only() set, the
\* same select_related, the same ordering and the same low / high marks.
C17_PathsEquivalent ==
    (core_result.called /\ mixin_result.called) =>
        /\ core_result.raised = None
        /\ mixin_result.raised = None
        /\ core_result.queryset.deferred_loading = mixin_result.queryset.deferred_loading
        /\ core_result.queryset.select_related = mixin_result.queryset.select_related
        /\ core_result.queryset.order_by = mixin_result.queryset.order_by
        /\ core_result.queryset.low_mark = mixin_result.queryset.low_mark
        /\ core_result.queryset.high_mark = mixin_result.queryset.high_mark

(***************************************************************************)
(* C21..C30                                                                *)
(***************************************************************************)
\* the longest text between the quotes of a string literal
MaxLit == 3

\* what a string literal of a $filter may hold between its quotes
LiteralChars == {"a", ",", ";", "(", ")", "="}

\* status eq '<body>'
FilterWithLiteral(body) == <<"status", " ", "eq", " ", "'">> \o body \o <<"'">>

\* posts($filter=status eq '<body>'<more>)<rest>
LiteralText(body, more, rest) ==
    <<"posts", "(", "$filter", "=">> \o FilterWithLiteral(body) \o more \o <<")">> \o rest

MoreOptions == {<<>>, <<";", "$top", "=", "5">>}
MoreFields == {<<>>, <<",", "author">>}

InitLiteral ==
    /\ \E body \in SeqsUpTo(LiteralChars, MaxLit), more \in MoreOptions, rest \in MoreFields :
           input = LiteralText(body, more, rest)
    /\ op = "none"
    /\ parsed = <<>>
    /\ segments = <<>>
    /\ model = "BlogPost"
    /\ select_param = None
    /\ expand_param = None
    /\ path = "none"
    /\ pc = "idle"
    /\ select_fields = <<>>
    /\ expand_fields = <<>>
    /\ built = None
    /\ categorized = NoCategories
    /\ queryset = NewQuerySet
    /\ expandable_fields = <<>>
    /\ odata_expand = <<>>
    /\ stack = <<>>
    /\ query_params = <<>>
    /\ query_string = None
    /\ user = None
    /\ core_result = NotCalled
    /\ mixin_result = NotCalled
    /\ graph = NoGraph
    /\ cycles = <<>>
    /\ edges_to_skip = {}
    /\ frames = <<>>

SpecLiteral == InitLiteral /\ [][ParseExpand]_vars

\* C21: whatever a string literal of $filter holds between its quotes, the
\* $filter entry is the filter text as written, and the option and the
\* field that follow are parsed as they are after a literal of plain
\* characters.
C21_LiteralKeptIntact ==
    op = "expand" =>
        \A body \in SeqsUpTo(LiteralChars, MaxLit), more \in MoreOptions, rest \in MoreFields :
            input = LiteralText(body, more, rest) =>
                parsed =
                    << << <<"posts">>,
                          << << <<"$filter">>, FilterWithLiteral(body) >> >>
                             \o (IF more = <<>> THEN <<>> ELSE << << <<"$top">>, <<"5">> >> >>) >> >>
                    \o (IF rest = <<>> THEN <<>> ELSE << << <<"author">>, <<>> >> >>)

(***************************************************************************)
(* native_fields.py: a serializer class built from                         *)
(* NativeFieldSelectionMixin and NativeFieldExpansionMixin, constructed    *)
(* whole.  serializer.fields is a dict from field name to None (a plain    *)
(* field) or to the child serializer.                                      *)
(***************************************************************************)
\* the classes of the tests: TestSerializer and AuthorSerializer of
\* test_select_and_expand_together; PostSerializer is the BlogPostSerializer
\* of tests/integration/test_enhanced_expand.py, which declares the relation
\* 'author' as a field and as an expandable field (fields cut to three)
DeclaredFields(cls) ==
    CASE cls = "TestSerializer" -> << <<"id">>, <<"title">>, <<"status">> >>
      [] cls = "PostSerializer" -> << <<"id">>, <<"title">>, <<"author">> >>
      [] cls = "AuthorSerializer" -> << <<"id">>, <<"name">>, <<"email">> >>
UsesSelection(cls) == cls \in {"TestSerializer", "PostSerializer", "AuthorSerializer"}
UsesExpansion(cls) == cls \in {"TestSerializer", "PostSerializer"}
FieldClasses == {"TestSerializer", "PostSerializer", "AuthorSerializer"}
TestExpandable ==
    [cls \in FieldClasses |->
        IF UsesExpansion(cls) THEN << << <<"author">>, "AuthorSerializer" >> >> ELSE <<>>]

\* NativeFieldSelectionMixin._apply_field_selection on self.fields
ApplyFieldSelection(fields, select, expand) ==
    IF ~Truthy(select) THEN fields
    ELSE LET top_level_fields == parse_select_fields(select[1]).top_level
             allowed_fields ==
                 SeqToSet(top_level_fields) \cup
                     (IF Truthy(expand)
                      THEN SeqToSet(DictKeys(parse_expand_fields(expand[1]))) ELSE {})
         IN  IF top_level_fields = <<>> THEN fields
             ELSE SelectSeq(fields, LAMBDA entry : entry[1] \in allowed_fields)

RECURSIVE SerializerInit(_, _, _, _, _)
RECURSIVE AddExpansions(_, _, _, _, _, _)

\* the loop of _apply_field_expansion over expand_fields.items()
AddExpansions(expandable, fields, items, select, expand, depth) ==
    IF items = <<>> THEN fields
    ELSE LET field_name == Head(items)[1]
             nested_select == Head(items)[2]
         IN  IF ~DictHas(expandable, field_name)
             THEN AddExpansions(expandable, fields, Tail(items), select, expand, depth)
             ELSE AddExpansions(
                      expandable,
                      DictSet(fields, field_name,
                              Some(SerializerInit(expandable_fields,
                                                  DictGet(expandable, field_name),
                                                  IF Truthy(nested_select)
                                                  THEN nested_select ELSE select,
                                                  expand, NestedDepth(depth)))),
                      Tail(items), select, expand, depth)

\* __init__: the declared fields, then _apply_field_expansion, then
\* _apply_field_selection (the order of the classes' __init__ chain)
SerializerInit(all_expandable, cls, select, expand, depth) ==
    LET declared == [i \in 1..Len(DeclaredFields(cls)) |-> <<DeclaredFields(cls)[i], None>>]
        expandable == all_expandable[cls]
        expanded ==
            IF \/ ~UsesExpansion(cls)
               \/ ~Truthy(expand)
               \/ MaxDepthReached(depth)
               \/ expandable = <<>>
            THEN declared
            ELSE AddExpansions(expandable, declared, parse_expand_fields(expand[1]),
                               select, expand, depth)
    IN  [cls |-> cls,
         expanded |-> DictKeys(expanded),
         fields |-> IF UsesSelection(cls)
                    THEN ApplyFieldSelection(expanded, select, expand) ELSE expanded]

FieldSelects ==
    { None, Some(<<>>), Some(<<" ">>), Some(<<"id">>), Some(<<"id", ",", "title">>),
      Some(<<"title", ",", "nonexistent">>), Some(<<"nonexistent">>),
      Some(<<"id", ",", "author", ".", "name">>) }
FieldExpands ==
    { None, Some(<<>>), Some(<<"author">>),
      Some(<<"author", "(", "$select", "=", "name", ")">>),
      Some(<<"author", "(", "$top", "=", "5", ")">>),
      Some(<<"nonexistent">>),
      Some(<<"nonexistent", ",", "author">>) }

InitFields ==
    /\ input = <<>>
    /\ op = "none"
    /\ parsed = <<>>
    /\ segments = <<>>
    /\ model = "BlogPost"
    /\ select_param \in FieldSelects
    /\ expand_param = None
    /\ path = "none"
    /\ pc \in {"TestSerializer", "PostSerializer", "AuthorSerializer"}
    /\ select_fields = <<>>
    /\ expand_fields = <<>>
    /\ built = None
    /\ categorized = NoCategories
    /\ queryset = NewQuerySet
    /\ expandable_fields = TestExpandable
    /\ odata_expand \in FieldExpands
    /\ stack = <<>>
    /\ query_params = <<>>
    /\ query_string = None
    /\ user = None
    /\ core_result = NotCalled
    /\ mixin_result = NotCalled
    /\ graph = NoGraph
    /\ cycles = <<>>
    /\ edges_to_skip = {}
    /\ frames = <<>>

\* serializer = <class>(context={'odata_params': {'$select': ..., '$expand': ...}})
ConstructSerializer ==
    /\ stack = <<>>
    /\ pc \in FieldClasses
    /\ stack' = <<SerializerInit(expandable_fields, pc, select_param, odata_expand, 0)>>
    /\ UNCHANGED <<depVars, parseVars, planVars, reqVars, expandable_fields, odata_expand>>

SpecFields == InitFields /\ [][ConstructSerializer]_vars

(***************************************************************************)
(* C21..C30, continued: the serializer's fields after construction         *)
(***************************************************************************)
FieldNames(serializer) == SeqToSet(DictKeys(serializer.fields))
\* the top-level names of $expand: the navigation property names
ExpandTopNames(expand) ==
    IF Truthy(expand) THEN SeqToSet(DictKeys(parse_expand_fields_v2(expand[1]))) ELSE {}
SelectTopLevel(select) ==
    IF Truthy(select) THEN parse_select_fields(select[1]).top_level ELSE <<>>

\* C22: after construction with a $select whose parsed top-level list is
\* non-empty, the serializer's fields are exactly the previously present
\* fields named in that list or named at the top level of $expand; with no
\* $select or an empty one every field is kept.
C22_SelectKeepsSelectedAndExpanded ==
    stack # <<>> =>
        IF SelectTopLevel(select_param) # <<>>
        THEN FieldNames(stack[1]) =
                 { name \in SeqToSet(stack[1].expanded) :
                       \/ name \in SeqToSet(SelectTopLevel(select_param))
                       \/ name \in ExpandTopNames(odata_expand) }
        ELSE FieldNames(stack[1]) = SeqToSet(stack[1].expanded)

\* the relations expanded into a child serializer with no nested $select
ExpandedWithoutSelect(serializer, expand) ==
    { i \in 1..Len(serializer.fields) :
          /\ serializer.fields[i][2] # None
          /\ Truthy(expand)
          /\ DictHas(parse_expand_fields(expand[1]), serializer.fields[i][1])
          /\ ~Truthy(DictGet(parse_expand_fields(expand[1]), serializer.fields[i][1])) }

\* C28: a relation expanded without a nested $select gets a child serializer
\* that the parent's $select does not restrict: every declared field of the
\* child is still present.
C28_ChildKeepsAllFields ==
    stack # <<>> =>
        \A i \in ExpandedWithoutSelect(stack[1], odata_expand) :
            FieldNames(stack[1].fields[i][2][1]) =
                SeqToSet(DeclaredFields(stack[1].fields[i][2][1].cls))

(***************************************************************************)
(* mixins.py: ODataMixin.apply_odata_query called on the view's queryset   *)
(***************************************************************************)
\* the view's queryset: Model.objects.all(), or one the view has ordered
ViewQuerySets == {NewQuerySet, [NewQuerySet EXCEPT !.order_by = << <<"id">> >>]}

InitMixinQuery ==
    /\ input = <<>>
    /\ op = "none"
    /\ parsed = <<>>
    /\ segments = <<>>
    /\ model \in MainModels
    /\ select_param = None
    /\ expand_param = None
    /\ path = "none"
    /\ pc = "start"
    /\ select_fields = <<>>
    /\ expand_fields = <<>>
    /\ built = None
    /\ categorized = NoCategories
    /\ queryset \in ViewQuerySets
    /\ expandable_fields = <<>>
    /\ odata_expand = <<>>
    /\ stack = <<>>
    /\ query_string = None
    /\ query_params \in RequestDicts(FilterTexts, {}, {}, {<<"title", " ", "desc">>},
                                     {<<Digits[MaxMark + 1]>>, <<"x">>},
                                     {<<Digits[MaxMark + 1]>>})
    /\ user \in Users
    /\ core_result = NotCalled
    /\ mixin_result = NotCalled
    /\ graph = NoGraph
    /\ cycles = <<>>
    /\ edges_to_skip = {}
    /\ frames = <<>>

\* viewset.apply_odata_query(queryset)
MixinApplyODataQuery ==
    /\ ~mixin_result.called
    /\ mixin_result' = ODataMixin_apply_odata_query(
                           queryset, model, parse_odata_query(query_params).options, user)
    /\ UNCHANGED <<depVars, parseVars, serVars, planVars, query_params, query_string, user, core_result>>

SpecMixinQuery == InitMixinQuery /\ [][MixinApplyODataQuery]_vars

\* C23: when applying the OData parameters raises, ODataMixin.apply_odata_query
\* raises nothing and returns the queryset it was given, with none of
\* $filter, $orderby, $skip and $top applied.
C23_FailureReturnsGivenQueryset ==
    (/\ mixin_result.called
     /\ apply_odata_query_params(queryset, parse_odata_query(query_params).options).raised # None)
        => mixin_result = Returned(queryset)
\* an invalid $filter next to $orderby, $skip and $top, for a non-staff user
C23_Witness ==
    /\ mixin_result = Returned(queryset)
    /\ DictHas(query_params, <<"$filter">>)
    /\ ~ValidFilter(DictGet(query_params, <<"$filter">>))
    /\ DictHas(query_params, <<"$orderby">>)
    /\ DictHas(query_params, <<"$skip">>)
    /\ DictHas(query_params, <<"$top">>)
    /\ user = Some("reader")
    /\ queryset # NewQuerySet

\* C26: for a non-staff user and a model with a status attribute, every
\* queryset ODataMixin.apply_odata_query returns is restricted to
\* status='published', whatever the OData parameters.
C26_NonStaffSeesPublishedOnly ==
    (/\ mixin_result.called
     /\ user # None /\ user[1] # "staff"
     /\ HasStatus(model)
     /\ mixin_result.raised = None)
        => \E i \in 1..Len(mixin_result.queryset.where) :
               mixin_result.queryset.where[i] = <<"status", "=", "published">>

\* C27: for every $expand string the native parse_expand_fields and
\* parse_expand_fields_v2 return maps with the same set of keys.
C27_ParsersAgreeOnKeys ==
    op = "expand" =>
        SeqToSet(DictKeys(parse_expand_fields(input))) = SeqToSet(DictKeys(parsed))

\* the queryset field selection handed to the expansion
SelectedQuerySet == optimize_queryset_for_select(NewQuerySet, model, select_fields, expand_fields)

\* C25: expansion never loses a field that field selection put in only():
\* whenever optimize_queryset_for_expand runs on a queryset restricted by
\* only(F), the queryset stays restricted and its new set contains F; so
\* after select then expand the only() set contains every field
\* build_only_fields_list returned.
C25_ExpandKeepsOnlyFields ==
    pc = "done" =>
        LET selected == SelectedQuerySet
        IN  /\ built # None =>
                   HasOnly(queryset) /\ built[1] \subseteq OnlyNames(queryset)
            /\ HasOnly(selected) =>
                   HasOnly(queryset) /\ OnlyNames(selected) \subseteq OnlyNames(queryset)
\* only() was applied again by the expansion and grew by '<relation>__' names
C25_Witness ==
    /\ pc = "done"
    /\ built # None
    /\ built[1] # OnlyNames(queryset)
    /\ built[1] \subseteq OnlyNames(queryset)
    /\ \E name \in OnlyNames(queryset) : Contains(name, <<"__">>)

(***************************************************************************)
(* optimization.py: optimize_queryset_for_expand on a queryset that the    *)
(* caller has already given prefetch_related lookups                       *)
(***************************************************************************)
\* Model.objects.all(), or with a lookup by name, a nested lookup or a
\* Prefetch object of the caller's
CallerQuerySets ==
    { IF lookups = <<>> THEN NewQuerySet ELSE PrefetchRelated(NewQuerySet, lookups) :
          lookups \in { <<>>,
                        <<ByName(<<"categories">>)>>,
                        <<ByName(<<"author", "__", "posts">>)>>,
                        <<PrefetchObj(<<"comments">>, {<<"id">>})>> } }

InitPrefetch ==
    /\ input = <<>>
    /\ op = "none"
    /\ parsed = <<>>
    /\ segments = <<>>
    /\ model \in MainModels
    /\ select_param = None
    /\ expand_param \in ExpandParams
    /\ path = "api"
    /\ pc = "start"
    /\ select_fields = <<>>
    /\ expand_fields = IF Truthy(expand_param)
                       THEN parse_expand_fields_v2(expand_param[1]) ELSE <<>>
    /\ built = None
    /\ categorized = NoCategories
    /\ queryset \in CallerQuerySets
    /\ expandable_fields = <<>>
    /\ odata_expand = <<>>
    /\ stack = <<>>
    /\ query_params = <<>>
    /\ query_string = None
    /\ user = None
    /\ core_result = NotCalled
    /\ mixin_result = NotCalled
    /\ graph = NoGraph
    /\ cycles = <<>>
    /\ edges_to_skip = {}
    /\ frames = <<>>

\* result = optimize_queryset_for_expand(queryset, expand_fields)
OptimizeForExpand ==
    /\ ~core_result.called
    /\ core_result' = Returned(optimize_queryset_for_expand(queryset, model, expand_fields))
    /\ categorized' = categorize_relations(model, DictKeys(expand_fields))
    /\ pc' = "done"
    /\ UNCHANGED <<depVars, parseVars, serVars, model, select_param, expand_param, path, select_fields,
                   expand_fields, built, queryset, query_params, query_string, user,
                   mixin_result>>

SpecPrefetch == InitPrefetch /\ [][OptimizeForExpand]_vars

\* the positions of the lookups for one relation
LookupsTo(qs, name) ==
    { j \in 1..Len(qs.prefetch_related_lookups) : qs.prefetch_related_lookups[j].prefetch_to = name }
\* the relation's entry of $expand has a nested $select
HasNestedSelect(name) == Truthy(DictGetOpt(DictGet(expand_fields, name), <<"$select">>))

\* C29: every prefetch_related lookup on the queryset passed to
\* optimize_queryset_for_expand is on the queryset returned, and each expanded
\* collection relation is there exactly once: a Prefetch object when it has a
\* nested $select, a name otherwise.
C29_PrefetchLookupsKept ==
    core_result.called =>
        /\ \A i \in 1..Len(queryset.prefetch_related_lookups) :
               \E j \in 1..Len(core_result.queryset.prefetch_related_lookups) :
                   core_result.queryset.prefetch_related_lookups[j] =
                       queryset.prefetch_related_lookups[i]
        /\ \A name \in SeqToSet(categorized.prefetch_related) :
               /\ Cardinality(LookupsTo(core_result.queryset, name)) = 1
               /\ \A j \in LookupsTo(core_result.queryset, name) :
                      (core_result.queryset.prefetch_related_lookups[j].queryset_only # None)
                          <=> HasNestedSelect(name)

(***************************************************************************)
(* dependency_detector.py: detect_cycles and resolve_circular_dependencies *)
(* graph.nodes and each graph.edges[node] are sets; the model keeps them   *)
(* as sequences, the order in which the for loops meet their elements.     *)
(***************************************************************************)
MaxEdges == 4
ModelPaths == {"blog.Author", "blog.BlogPost", "blog.Comment"}

\* graph.edges.get(node, set()), in iteration order
RECURSIVE Neighbors(_, _)
Neighbors(edges, node) ==
    IF edges = <<>> THEN <<>>
    ELSE (IF Head(edges)[1] = node THEN <<Head(edges)[2]>> ELSE <<>>)
         \o Neighbors(Tail(edges), node)

\* path.index(neighbor)
PathIndex(dfs_path, node) == CHOOSE i \in 1..Len(dfs_path) :
    dfs_path[i] = node /\ \A j \in 1..(i - 1) : dfs_path[j] # node

\* CircularDependency(cycle=path[cycle_start_idx:] + [neighbor], edge_to_skip=(node, neighbor))
CircularDependency(dfs_path, node, neighbor) ==
    [cycle |-> SubSeq(dfs_path, PathIndex(dfs_path, neighbor), Len(dfs_path)) \o <<neighbor>>,
     edge_to_skip |-> <<node, neighbor>>]

RECURSIVE dfs(_, _, _, _)
RECURSIVE ForNeighbors(_, _, _, _, _)

\* the for loop of dfs over the neighbors left; st is the closure's state
\* [visited, rec_stack, cycles]
ForNeighbors(g, node, dfs_path, neighbors, st) ==
    IF neighbors = <<>> THEN st
    ELSE ForNeighbors(
             g, node, dfs_path, Tail(neighbors),
             IF Head(neighbors) \notin st.visited
             THEN dfs(g, Head(neighbors), dfs_path, st)
             ELSE IF Head(neighbors) \in st.rec_stack
             THEN [st EXCEPT !.cycles =
                       Append(@, CircularDependency(dfs_path, node, Head(neighbors)))]
             ELSE st)

\* dfs(node, path): path arrives as a copy and gets the node appended
dfs(g, node, dfs_path, st) ==
    [ForNeighbors(g, node, Append(dfs_path, node), Neighbors(g.edges, node),
                  [st EXCEPT !.visited = @ \cup {node}, !.rec_stack = @ \cup {node}])
        EXCEPT !.rec_stack = @ \ {node}]

\* "for node in graph.nodes: if node not in visited: dfs(node, [])"
RECURSIVE ForNodes(_, _, _)
ForNodes(g, nodes, st) ==
    IF nodes = <<>> THEN st
    ELSE ForNodes(g, Tail(nodes),
                  IF Head(nodes) \notin st.visited THEN dfs(g, Head(nodes), <<>>, st) ELSE st)

detect_cycles(g) ==
    ForNodes(g, g.nodes, [visited |-> {}, rec_stack |-> {}, cycles |-> <<>>]).cycles

\* resolve_circular_dependencies that skips the edge of the first cycle only
resolve_circular_dependencies_FirstOnly(found) ==
    IF found = <<>> THEN {} ELSE {found[1].edge_to_skip}

resolve_circular_dependencies(found) ==
    {found[i].edge_to_skip : i \in 1..Len(found)}

\* should_include_relationship
should_include_relationship(from_model, to_model, excluded_edges) ==
    <<from_model, to_model>> \notin excluded_edges

\* the graphs: some of the models as nodes, up to MaxEdges relationships
\* among the models, each in every iteration order
DistinctSeqs(S, n) == {s \in SeqsUpTo(S, n) : Distinct(s)}
Graphs(max_edges) ==
    { [nodes |-> ns, edges |-> es] :
          ns \in DistinctSeqs(ModelPaths, Cardinality(ModelPaths)),
          es \in DistinctSeqs(ModelPaths \X ModelPaths, max_edges) }

InitCycles ==
    /\ input = <<>>
    /\ op = "none"
    /\ parsed = <<>>
    /\ segments = <<>>
    /\ model = "BlogPost"
    /\ select_param = None
    /\ expand_param = None
    /\ path = "none"
    /\ pc = "start"
    /\ select_fields = <<>>
    /\ expand_fields = <<>>
    /\ built = None
    /\ categorized = NoCategories
    /\ queryset = NewQuerySet
    /\ expandable_fields = <<>>
    /\ odata_expand = <<>>
    /\ stack = <<>>
    /\ query_params = <<>>
    /\ query_string = None
    /\ user = None
    /\ core_result = NotCalled
    /\ mixin_result = NotCalled
    /\ graph \in Graphs(MaxEdges)
    /\ cycles = <<>>
    /\ edges_to_skip = {}
    /\ frames = <<>>

\* cycles = detect_cycles(graph)
DetectCycles ==
    /\ pc = "start"
    /\ cycles' = detect_cycles(graph)
    /\ pc' = "detected"
    /\ UNCHANGED <<parseVars, serVars, reqVars, model, select_param, expand_param, path,
                   select_fields, expand_fields, built, categorized, queryset,
                   graph, edges_to_skip, frames>>

\* excluded_edges = resolve_circular_dependencies(cycles)
ResolveCircularDependencies ==
    /\ pc = "detected"
    /\ edges_to_skip' = resolve_circular_dependencies(cycles)
    /\ pc' = "resolved"
    /\ UNCHANGED <<parseVars, serVars, reqVars, model, select_param, expand_param, path,
                   select_fields, expand_fields, built, categorized, queryset,
                   graph, cycles, frames>>

NextCycles == DetectCycles \/ ResolveCircularDependencies

SpecCycles == InitCycles /\ [][NextCycles]_vars

\* the edges of the graph as a set of pairs
EdgeSet(g) == SeqToSet(g.edges)
\* one more step along the edges E from the nodes in from
Step(E, from) == {e[2] : e \in {d \in E : d[1] \in from}}
\* the nodes reached from the nodes in from by k edges or fewer
RECURSIVE Within(_, _, _)
Within(E, from, k) ==
    IF k = 0 THEN from ELSE Within(E, from \cup Step(E, from), k - 1)
Reachable(g) == Within(EdgeSet(g), SeqToSet(g.nodes), Cardinality(ModelPaths))
\* a directed cycle among the nodes in N along the edges E
HasCycle(E, N) ==
    \E n \in N : n \in Within({e \in E : e[1] \in N /\ e[2] \in N},
                              Step({e \in E : e[1] \in N /\ e[2] \in N}, {n}),
                              Cardinality(ModelPaths))
\* the cycle is a closed path of graph edges ending with its edge_to_skip
ClosedPath(g, found) ==
    /\ Len(found.cycle) >= 2
    /\ found.cycle[1] = found.cycle[Len(found.cycle)]
    /\ \A i \in 1..(Len(found.cycle) - 1) :
           <<found.cycle[i], found.cycle[i + 1]>> \in EdgeSet(g)
    /\ <<found.cycle[Len(found.cycle) - 1], found.cycle[Len(found.cycle)]>> = found.edge_to_skip

\* C30: once the edges resolve_circular_dependencies(detect_cycles(graph))
\* returned are removed, no directed cycle remains among the nodes reachable
\* from graph.nodes; detect_cycles returns no cycle only when that part of
\* the graph is acyclic; every reported cycle is a closed path of graph edges
\* that ends with its edge_to_skip.
C30_SkippedEdgesBreakEveryCycle ==
    /\ pc = "resolved" =>
           ~HasCycle({e \in EdgeSet(graph) :
                         should_include_relationship(e[1], e[2], edges_to_skip)},
                     Reachable(graph))
    /\ pc # "start" =>
           /\ (cycles = <<>> => ~HasCycle(EdgeSet(graph), Reachable(graph)))
           /\ \A i \in 1..Len(cycles) : ClosedPath(graph, cycles[i])
\* two cycles through one node, both reported and both broken
C30_Witness ==
    /\ pc = "resolved"
    /\ Len(cycles) >= 2
    /\ \E i \in 1..Len(cycles) : Len(cycles[i].cycle) = 4
    /\ Cardinality(edges_to_skip) >= 2

(***************************************************************************)
(* Two requests in one process: each runs parse_expand_fields_v2,          *)
(* categorize_relations and build_only_fields_list, one statement of a     *)
(* loop at a time, in any interleaving.  The names these functions assign  *)
(* (result, current_field, paren_depth, select_related, prefetch_related,  *)
(* only_fields) are locals: each call has its own.                         *)
(***************************************************************************)
MaxRequests == 2
Requests == 1..MaxRequests

\* the frame a call's local names live in: its own
FrameOf_Shared(t) == 1
FrameOf(t) == t

ConcurrentExpands ==
    { <<"comments", ",", "author">>, <<"author", "(", "$select", "=", "bio", ")">> }

\* a call about to start: its arguments, nothing assigned yet
NewFrame(expand_string, selected_fields) ==
    [expand_string |-> expand_string, selected_fields |-> selected_fields, m |-> "BlogPost",
     pc |-> "parse_call", i |-> 1, overlapped |-> FALSE,
     result |-> <<>>, current_field |-> <<>>, paren_depth |-> 0,
     select_related |-> <<>>, prefetch_related |-> <<>>, only_fields |-> {},
     expand_flds |-> <<>>, categorized |-> NoCategories, only_list |-> {}]

InitConcurrent ==
    /\ input = <<>>
    /\ op = "none"
    /\ parsed = <<>>
    /\ segments = <<>>
    /\ model = "BlogPost"
    /\ select_param = None
    /\ expand_param = None
    /\ path = "none"
    /\ pc = "start"
    /\ select_fields = <<>>
    /\ expand_fields = <<>>
    /\ built = None
    /\ categorized = NoCategories
    /\ queryset = NewQuerySet
    /\ expandable_fields = <<>>
    /\ odata_expand = <<>>
    /\ stack = <<>>
    /\ query_params = <<>>
    /\ query_string = None
    /\ user = None
    /\ core_result = NotCalled
    /\ mixin_result = NotCalled
    /\ graph = NoGraph
    /\ cycles = <<>>
    /\ edges_to_skip = {}
    /\ frames \in [Requests -> {NewFrame(e, << <<"title">>, <<"nonexistent">> >>) :
                                   e \in ConcurrentExpands}]

\* another call is between its first statement and its return
Overlaps(t) == \E u \in Requests \ {t} : frames[u].pc \notin {"parse_call", "done"}
\* call t takes a step: its position moves, and it notes the overlap
Moved(t, to_pc, to_i) ==
    [frames[t] EXCEPT !.pc = to_pc, !.i = to_i, !.overlapped = @ \/ Overlaps(t)]
OthersUnchanged ==
    UNCHANGED <<parseVars, planVars, serVars, reqVars, graph, cycles, edges_to_skip>>

\* parse_expand_fields_v2: the early return, or result = {}; current_field = ""; paren_depth = 0
ParseCall(t) ==
    /\ frames[t].pc = "parse_call"
    /\ IF frames[t].expand_string = <<>> \/ Strip(frames[t].expand_string) = <<>>
       THEN frames' = [frames EXCEPT ![t] = [Moved(t, "categorize_call", 1)
                                                EXCEPT !.expand_flds = <<>>]]
       ELSE frames' = [frames EXCEPT ![t] = Moved(t, "parse_loop", 1),
                                     ![FrameOf(t)].result = <<>>,
                                     ![FrameOf(t)].current_field = <<>>,
                                     ![FrameOf(t)].paren_depth = 0]
    /\ OthersUnchanged

\* one turn of "for char in expand_string + ','", or "return result"
ParseChar(t) ==
    /\ frames[t].pc = "parse_loop"
    /\ LET text == WithTrailingDelimiter(frames[t].expand_string, ",")
           locals == frames[FrameOf(t)]
           char == text[frames[t].i]
           fo == _parse_single_expand_field_v2(Strip(locals.current_field))
       IN  IF frames[t].i > Len(text)
           THEN frames' = [frames EXCEPT ![t] = [Moved(t, "categorize_call", 1)
                                                    EXCEPT !.expand_flds = locals.result]]
           ELSE IF char = "(" \/ char = ")"
           THEN frames' = [frames EXCEPT
                              ![t] = Moved(t, "parse_loop", frames[t].i + 1),
                              ![FrameOf(t)].paren_depth = NextDepth(char, locals.paren_depth),
                              ![FrameOf(t)].current_field = Append(locals.current_field, char)]
           ELSE IF EndsSegment(char, ",", locals.paren_depth)
           THEN frames' = [frames EXCEPT
                              ![t] = Moved(t, "parse_loop", frames[t].i + 1),
                              ![FrameOf(t)].result =
                                  IF Strip(locals.current_field) # <<>>
                                  THEN DictSet(locals.result, fo[1], fo[2])
                                  ELSE locals.result,
                              ![FrameOf(t)].current_field = <<>>]
           ELSE frames' = [frames EXCEPT
                              ![t] = Moved(t, "parse_loop", frames[t].i + 1),
                              ![FrameOf(t)].current_field = Append(locals.current_field, char)]
    /\ OthersUnchanged

\* categorize_relations(model, expand_fields.keys()): select_related = []; prefetch_related = []
CategorizeCall(t) ==
    /\ frames[t].pc = "categorize_call"
    /\ frames' = [frames EXCEPT ![t] = Moved(t, "categorize_loop", 1),
                                ![FrameOf(t)].select_related = <<>>,
                                ![FrameOf(t)].prefetch_related = <<>>]
    /\ OthersUnchanged

\* one turn of "for field_name in field_names", or the return
CategorizeField(t) ==
    /\ frames[t].pc = "categorize_loop"
    /\ LET field_names == DictKeys(frames[t].expand_flds)
           locals == frames[FrameOf(t)]
           field_name == field_names[frames[t].i]
       IN  IF frames[t].i > Len(field_names)
           THEN frames' = [frames EXCEPT
                              ![t] = [Moved(t, "build_call", 1) EXCEPT !.categorized =
                                         [select_related |-> locals.select_related,
                                          prefetch_related |-> locals.prefetch_related]]]
           ELSE IF is_forward_relation(frames[t].m, field_name)
           THEN frames' = [frames EXCEPT
                              ![t] = Moved(t, "categorize_loop", frames[t].i + 1),
                              ![FrameOf(t)].select_related = Append(locals.select_related, field_name)]
           ELSE frames' = [frames EXCEPT
                              ![t] = Moved(t, "categorize_loop", frames[t].i + 1),
                              ![FrameOf(t)].prefetch_related = Append(locals.prefetch_related, field_name)]
    /\ OthersUnchanged

\* build_only_fields_list: only_fields = set(); only_fields.add(pk_field)
BuildCall(t) ==
    /\ frames[t].pc = "build_call"
    /\ frames' = [frames EXCEPT ![t] = Moved(t, "build_select", 1),
                                ![FrameOf(t)].only_fields = PkFields(frames[t].m)]
    /\ OthersUnchanged

\* one turn of "for field_name in selected_fields"
BuildSelected(t) ==
    /\ frames[t].pc = "build_select"
    /\ LET locals == frames[FrameOf(t)]
           field_name == frames[t].selected_fields[frames[t].i]
       IN  IF frames[t].i > Len(frames[t].selected_fields)
           THEN frames' = [frames EXCEPT ![t] = Moved(t, "build_expand", 1)]
           ELSE frames' = [frames EXCEPT
                              ![t] = Moved(t, "build_select", frames[t].i + 1),
                              ![FrameOf(t)].only_fields =
                                  locals.only_fields \cup SelectedDbFields(frames[t].m, <<field_name>>)]
    /\ OthersUnchanged

\* one turn of "for field_name in expand_fields.keys()", or "return list(only_fields)"
BuildExpanded(t) ==
    /\ frames[t].pc = "build_expand"
    /\ LET keys == DictKeys(frames[t].expand_flds)
           locals == frames[FrameOf(t)]
           field_name == keys[frames[t].i]
       IN  IF frames[t].i > Len(keys)
           THEN frames' = [frames EXCEPT ![t] = [Moved(t, "done", 1)
                                                    EXCEPT !.only_list = locals.only_fields]]
           ELSE frames' = [frames EXCEPT
                              ![t] = Moved(t, "build_expand", frames[t].i + 1),
                              ![FrameOf(t)].only_fields =
                                  locals.only_fields \cup ExpandAttnames(frames[t].m, <<field_name>>)]
    /\ OthersUnchanged

NextConcurrent ==
    \E t \in Requests :
        \/ ParseCall(t)
        \/ ParseChar(t)
        \/ CategorizeCall(t)
        \/ CategorizeField(t)
        \/ BuildCall(t)
        \/ BuildSelected(t)
        \/ BuildExpanded(t)

SpecConcurrent == InitConcurrent /\ [][NextConcurrent]_vars

\* what the call returned, and what it was given
Returns(frame) == <<frame.expand_flds, frame.categorized, frame.only_list>>
Arguments(frame) == <<frame.expand_string, frame.selected_fields, frame.m>>

====
